---- MODULE Spec2Model ----
(***************************************************************************)
(* A model of src/Client.js: the Client class of the repository, its       *)
(* login strategies, teardown, finalizer cleanups and one-time-code        *)
(* redemption.  JavaScript values are records [t, s]: t is the typeof-like *)
(* tag and s the characters of a string (a sequence of one-character       *)
(* strings), so that the regular expressions of the source can be          *)
(* evaluated character by character.                                       *)
(***************************************************************************)
EXTENDS Integers, Sequences, FiniteSets, TLC

(* ---------------------------------------------------------------- bounds *)
MaxTasks == 2
MaxCleanups == 2
MaxCacheEntries == 1
MaxCodes == 2
MaxSegments == 2
MaxMessages == 2
MaxAge == 2

TaskIds == 1..MaxTasks
Cleanups == 1..MaxCleanups
CacheKeys == 1..MaxCacheEntries
CodeIds == 1..MaxCodes
RedeemIds == 1..MaxTasks
MessageIds == 1..MaxMessages

(* ------------------------------------------------------ JavaScript values *)
Str(chars) == [t |-> "string", s |-> chars]
Undefined == [t |-> "undefined", s |-> <<>>]
Null == [t |-> "null", s |-> <<>>]
\* the numbers 42 (truthy) and 0 (falsy): typeof 'number'
NumberValue == [t |-> "number", s |-> <<"4", "2">>]
Zero == [t |-> "number", s |-> <<"0">>]
\* an error object carrying its code
Err(code) == [t |-> "error", s |-> <<code>>]

\* JavaScript truthiness of the values above ('' , null and undefined are falsy)
Truthy(v) == \/ v.t = "string" /\ v.s # <<>>
             \/ v.t = "number" /\ v # Zero
             \/ v.t = "error"

IsString(v) == v.t = "string"

Range(q) == {q[i] : i \in 1..Len(q)}

(* ------------------------------------------------------------ characters *)
Whitespace == {" ", "\t"}

ToLower(ch) ==
  CASE ch = "B" -> "b"
    [] ch = "O" -> "o"
    [] ch = "T" -> "t"
    [] ch = "E" -> "e"
    [] ch = "A" -> "a"
    [] ch = "R" -> "r"
    [] OTHER -> ch

LowerSeq(q) == [i \in 1..Len(q) |-> ToLower(q[i])]

Drop(q, n) == SubSeq(q, n + 1, Len(q))

StartsWithCI(q, p) == Len(q) >= Len(p) /\ LowerSeq(SubSeq(q, 1, Len(p))) = p

\* \s* at the head of q: the greedy run of whitespace is removed
RECURSIVE SkipWhitespace(_)
SkipWhitespace(q) ==
  IF q # <<>> /\ Head(q) \in Whitespace THEN SkipWhitespace(Tail(q)) ELSE q

StartsWith(q, p) == Len(q) >= Len(p) /\ SubSeq(q, 1, Len(p)) = p

\* the scheme regex without its i flag: /^(Bot|Bearer)\s*/
StripSchemeCaseSensitive(q) ==
  IF StartsWith(q, <<"B", "o", "t">>) THEN SkipWhitespace(Drop(q, 3))
  ELSE IF StartsWith(q, <<"B", "e", "a", "r", "e", "r">>) THEN SkipWhitespace(Drop(q, 6))
  ELSE q

\* token.replace(/^(Bot|Bearer)\s*/i, '')
StripScheme(q) ==
  IF StartsWithCI(q, <<"b", "o", "t">>) THEN SkipWhitespace(Drop(q, 3))
  ELSE IF StartsWithCI(q, <<"b", "e", "a", "r", "e", "r">>) THEN SkipWhitespace(Drop(q, 6))
  ELSE q

(* ----------------------------------------------------------------- state *)
VARIABLES
  token,          \* this.token
  password,       \* this.password
  cleanups,       \* this._cleanups, in insertion order (a JS Set iterates in that order)
  finalizers,     \* cleanups held by this._finalizers whose owner is not yet collected
  registered,     \* cleanups that have ever been registered
  invoked,        \* how many times each cleanup function has been called
  wsStatus,       \* this.ws.status
  wsDestroyed,    \* this.ws.destroy() has been called
  sweepTimer,     \* this.sweepMessageInterval: "none", "active" or "cleared"
  sweepersDestroyed, \* this.sweepers.destroy() has been called
  caches,         \* the named caches: cache name -> set of keys
  tasks,          \* the pending and settled login / normalLogin / switchUser calls
  hist,           \* the destroy() calls made since the last other operation
  usedCodes,      \* this.usedCodes, an array
  redeemCalls,    \* how many times the redemption endpoint was called for each code
  redeems,        \* the pending and settled redeemNitro calls
  ras,            \* the pending and settled remoteAuth calls
  creation,       \* the createToken call: its handshake listener and its promise
  messageCacheLifetime, \* this.options.messageCacheLifetime, in seconds
  messageSweepInterval, \* this.options.messageSweepInterval, in seconds
  messages,       \* the cached messages: message -> its age in seconds, or Absent
  swept,          \* the sweepMessages() call made since the cache last grew
  shardPlan,      \* the constructor's shard resolution: its inputs and its outcome
  finalized,      \* the last _finalize() call: what it ran and how it ended
  payload         \* the code after module.exports: how far it has run, and its effects

redeemVars == <<usedCodes, redeemCalls, redeems>>
remoteVars == <<ras, creation>>
sweepVars == <<messageCacheLifetime, messageSweepInterval, messages, swept>>
shardVars == <<shardPlan>>

vars == <<token, password, cleanups, finalizers, registered, invoked, wsStatus,
          wsDestroyed, sweepTimer, sweepersDestroyed, caches, tasks, hist,
          usedCodes, redeemCalls, redeems, ras, creation, messageCacheLifetime,
          messageSweepInterval, messages, swept, shardPlan, finalized,
          payload>>

CacheNames == {"users", "guilds", "channels", "relationships", "sessions", "voiceStates"}

\* the body of a response of the identity endpoint: { token, ticket, mfa }
NoResponse == [token |-> Undefined, ticket |-> Undefined, mfa |-> FALSE]

\* the body of a request to the MFA-exchange endpoint: { code, ticket }
NoMfaData == [code |-> Undefined, ticket |-> Undefined]

\* a free slot of the task table; the fields are the call's arguments, what it
\* saw and did, and how it settled
IdleTask ==
  [op |-> "none", pc |-> "idle", arg |-> Undefined, tokBefore |-> Null,
   stored |-> Null, connected |-> FALSE, hadEntries |-> FALSE, cachesEmpty |-> FALSE,
   stage |-> "none",
   val |-> Undefined, tokAfter |-> Null, pwAfter |-> Null,
   mfa |-> Undefined, pw |-> Undefined, gotResp |-> FALSE, resp |-> NoResponse,
   mfaPosted |-> FALSE, mfaPosts |-> 0, mfaData |-> NoMfaData, gotResp2 |-> FALSE,
   resp2 |-> NoResponse, loginArg |-> Null, pwArg |-> Undefined]

\* a free slot of the table of redeemNitro calls; last is how the latest request of
\* the call ended ("none", "ok", "fail") and succeeded whether one has succeeded
IdleRedeem ==
  [pc |-> "idle", codes |-> <<>>, redeem |-> FALSE, failFast |-> FALSE,
   skipped |-> FALSE, val |-> "none", last |-> "none", succeeded |-> FALSE]

\* a free slot of the table of remoteAuth calls: the arguments, the requests made
\* to the handshake, finish and cancel endpoints with their bodies, how often the
\* caller invoked the continuations, and how the call settled
NoData == [fingerprint |-> <<>>, handshake_token |-> Undefined]
IdleRemote ==
  [pc |-> "idle", url |-> Undefined, forceAccept |-> FALSE, ready |-> FALSE,
   handshakePosts |-> 0, handshakeData |-> NoData, handshake_token |-> Undefined,
   finishPosts |-> 0, finishData |-> NoData, cancelPosts |-> 0, cancelData |-> NoData,
   yesCalls |-> 0, noCalls |-> 0, exchanged |-> FALSE, val |-> Undefined]

\* no createToken call: pc is the state of the listener and of the promise
\* ("idle", "connecting", "waiting" for the finish event, "resolved"), ready is
\* whether the client was ready when the listener reported ready
IdleCreation == [pc |-> "idle", ready |-> FALSE, val |-> Undefined]

\* a message that is not cached has no age
Absent == -1
DefaultLifetime == 0

\* a lifetime argument: typeof and, for a number, its value or NaN
Lifetime(t, n, nan) == [t |-> t, n |-> n, nan |-> nan]
NoLifetime == Lifetime("undefined", 0, FALSE)

\* no sweepMessages() call: the argument, whether it threw, what it returned,
\* how often it invoked the sweeper and with the filter of which lifetime, and
\* the cache before the call
NoSweep ==
  [called |-> FALSE, arg |-> NoLifetime, threw |-> FALSE, ret |-> 0, sweeperCalls |-> 0,
   filter |-> 0, before |-> [m \in MessageIds |-> Absent]]

(* ------------------------------------------------ constructor: shard plan *)
Digits == {"0", "1", "2", "3", "4", "5", "6", "7", "8", "9"}

\* `item | 0` works on 32 bits: a number is kept as two 16-bit limbs, its
\* magnitude being hi * Limb + lo
Limb == 65536

\* a shard option element or a shard count, by kind: "int" an integer, "frac"
\* the magnitude plus one half, "nan" NaN, "inf" an infinity, "numstr" the
\* numeric string of the magnitude (typeof 'string')
JsNumber(k, neg, hi, lo) == [k |-> k, neg |-> neg, hi |-> hi, lo |-> lo]
Num(n) == JsNumber("int", n < 0, 0, IF n < 0 THEN -n ELSE n)
Half(n) == JsNumber("frac", FALSE, 0, n)
NaN == JsNumber("nan", FALSE, 0, 0)
Infinity == JsNumber("inf", FALSE, 0, 0)
NumericString(n) == JsNumber("numstr", FALSE, 0, n)
\* 2147483648, the first integer that does not fit 32 signed bits
TwoTo31 == JsNumber("int", FALSE, Limb \div 2, 0)

IsNumber(v) == v.k \in {"int", "frac", "nan", "inf"}
IsNaN(v) == v.k = "nan"
IsZero(v) == v.k \in {"int", "numstr"} /\ v.hi = 0 /\ v.lo = 0
\* v >= 0 and v < Infinity, with the operand converted to a number
GeZero(v) == v.k # "nan" /\ (~v.neg \/ IsZero(v))
LtInfinity(v) == v.k # "nan" /\ ~(v.k = "inf" /\ ~v.neg)
\* v < 1
LtOne(v) == v.k # "nan" /\ (v.neg \/ (v.k # "inf" /\ v.hi = 0 /\ v.lo = 0))

\* the limbs of 2^32 - (hi * Limb + lo), for 0 < hi * Limb + lo < 2^32
Complement(hi, lo) == IF lo = 0 THEN <<Limb - hi, 0>> ELSE <<Limb - 1 - hi, Limb - lo>>

\* ToInt32 of the integer of that sign and magnitude
ToInt32(neg, hi, lo) ==
  LET h == hi % Limb
      c == Complement(h, lo)
  IN IF h = 0 /\ lo = 0 THEN Num(0)
     ELSE IF ~neg
          THEN IF h >= Limb \div 2 THEN JsNumber("int", TRUE, c[1], c[2])
               ELSE JsNumber("int", FALSE, h, lo)
          ELSE IF h > Limb \div 2 \/ (h = Limb \div 2 /\ lo > 0)
               THEN JsNumber("int", FALSE, c[1], c[2])
               ELSE JsNumber("int", TRUE, h, lo)

\* item | 0: NaN and the infinities give 0, a fraction is truncated, a numeric
\* string is converted
BitOrZero(v) == IF v.k \in {"nan", "inf"} THEN Num(0) ELSE ToInt32(v.neg, v.hi, v.lo)

\* a === b: no conversion, NaN equals nothing
StrictEquals(a, b) == a.k # "nan" /\ a = b

\* the filter of the explicit shard list
ValidShard(item) ==
  ~IsNaN(item) /\ GeZero(item) /\ LtInfinity(item) /\ StrictEquals(item, BitOrZero(item))

\* [...new Set(q)]: each element once, at the position of its first occurrence
RECURSIVE Unique(_)
Unique(q) ==
  IF q = <<>> THEN <<>>
  ELSE LET r == Unique(SubSeq(q, 1, Len(q) - 1))
           x == q[Len(q)]
       IN IF x \in Range(r) THEN r ELSE Append(r, x)

FilterShards(q) == Unique(SelectSeq(q, LAMBDA item : ValidShard(item)))

\* options.shards: undefined, an array, a number or the string 'auto'
NoShards == [t |-> "undefined", list |-> <<>>, num |-> Num(0)]
ShardArray(q) == [t |-> "array", list |-> q, num |-> Num(0)]
ShardNumber(n) == [t |-> "number", list |-> <<>>, num |-> n]
Auto == [t |-> "string", list |-> <<>>, num |-> Num(0)]

\* Options.createDefault(): shards is undefined and shardCount is 1
DefaultShards == NoShards
DefaultShardCount == Num(1)

DigitValue(ch) ==
  CASE ch = "0" -> 0 [] ch = "1" -> 1 [] ch = "2" -> 2 [] ch = "3" -> 3 [] ch = "4" -> 4
    [] ch = "5" -> 5 [] ch = "6" -> 6 [] ch = "7" -> 7 [] ch = "8" -> 8 [] ch = "9" -> 9

\* the elements of a JSON array of one-digit numbers, read after "[" or ","
RECURSIVE ParseElements(_)
ParseElements(q) ==
  IF Len(q) = 2 /\ q[1] \in Digits /\ q[2] = "]"
  THEN [ok |-> TRUE, list |-> <<Num(DigitValue(q[1]))>>]
  ELSE IF Len(q) >= 3 /\ q[1] \in Digits /\ q[2] = ","
  THEN LET r == ParseElements(Drop(q, 2))
       IN [ok |-> r.ok, list |-> <<Num(DigitValue(q[1]))>> \o r.list]
  ELSE [ok |-> FALSE, list |-> <<>>]

\* JSON.parse(text): an array of numbers, a number, or a SyntaxError
JsonParse(q) ==
  IF q = <<"[", "]">> THEN [ok |-> TRUE, value |-> ShardArray(<<>>)]
  ELSE IF q # <<>> /\ Head(q) = "["
  THEN LET r == ParseElements(Tail(q))
       IN [ok |-> r.ok, value |-> ShardArray(r.list)]
  ELSE IF Len(q) = 1 /\ q[1] \in Digits
  THEN [ok |-> TRUE, value |-> ShardNumber(Num(DigitValue(q[1])))]
  ELSE [ok |-> FALSE, value |-> NoShards]

\* Number(text): '' is 0, a digit its value, 'd.5' a fraction, anything else NaN
ToNumber(q) ==
  IF q = <<>> THEN Num(0)
  ELSE IF Len(q) = 1 /\ q[1] \in Digits THEN Num(DigitValue(q[1]))
  ELSE IF Len(q) = 3 /\ q[1] \in Digits /\ q[2] = "." /\ q[3] = "5"
  THEN Half(DigitValue(q[1]))
  ELSE NaN

\* workerData ?? process.env: whether SHARDS and SHARD_COUNT are in it, and their text
Env(hasShards, shards, hasCount, count) ==
  [hasShards |-> hasShards, SHARDS |-> shards, hasCount |-> hasCount, SHARD_COUNT |-> count]
NoEnv == Env(FALSE, <<>>, FALSE, <<>>)

\* Array.from({ length: count }, (_, i) => i), for a count below Limb
ArrayFrom(count) ==
  IF count.k \in {"int", "frac"} /\ ~count.neg
  THEN [i \in 1..count.lo |-> Num(i - 1)]
  ELSE <<>>

\* an outcome of the construction: the error thrown, or the plan it completes with
NoOutcome == [pc |-> "none", error |-> "", shards |-> NoShards, shardCount |-> NaN]
ShardFailure(code) ==
  [pc |-> "failed", error |-> code, shards |-> NoShards, shardCount |-> NaN]
ShardPlan(shards, count) ==
  [pc |-> "built", error |-> "", shards |-> shards, shardCount |-> count]

\* the shard checks of _validateOptions
ValidateShardOptions(shards, count) ==
  IF ~IsNumber(count) \/ IsNaN(count) \/ LtOne(count)
  THEN ShardFailure("CLIENT_INVALID_OPTION")
  ELSE IF shards.t = "number" /\ ~IsNaN(shards.num) /\ ~IsZero(shards.num)
  THEN ShardFailure("CLIENT_INVALID_OPTION")
  ELSE IF shards.t = "array" /\ shards.list = <<>>
  THEN ShardFailure("CLIENT_INVALID_PROVIDED_SHARDS")
  ELSE ShardPlan(shards, count)

\* the count taken from the environment or from the list when options leave it
\* at its default
ResolveCountIgnoringEnv(shards, count, env) ==
  IF count = DefaultShardCount /\ shards.t = "array" THEN Num(Len(shards.list)) ELSE count
ResolveCount(shards, count, env) ==
  IF count = DefaultShardCount
  THEN IF env.hasCount THEN ToNumber(env.SHARD_COUNT)
       ELSE IF shards.t = "array" THEN Num(Len(shards.list)) ELSE count
  ELSE count

\* the dense list 0 .. count - 1 when no list is given
FillShardsFromOne(typeofShards, shards, count) ==
  IF typeofShards = "undefined" /\ IsNumber(count)
  THEN ShardArray([i \in 1..count.lo |-> Num(i)])
  ELSE shards
FillShards(typeofShards, shards, count) ==
  IF typeofShards = "undefined" /\ IsNumber(count) THEN ShardArray(ArrayFrom(count))
  ELSE shards

\* the constructor's shard resolution, from the merged options and the environment
ResolveShards(shards, shardCount, env) ==
  LET parsed == JsonParse(env.SHARDS)
      fromEnv == shards = DefaultShards /\ env.hasShards
      shards1 == IF fromEnv THEN parsed.value ELSE shards
      count1 == ResolveCount(shards1, shardCount, env)
      typeofShards == shards1.t
      shards2 == FillShards(typeofShards, shards1, count1)
      shards3 == IF typeofShards = "number" THEN ShardArray(<<shards1.num>>) ELSE shards2
      shards4 == IF shards3.t = "array" THEN ShardArray(FilterShards(shards3.list))
                 ELSE shards3
  IN IF fromEnv /\ ~parsed.ok THEN ShardFailure("SyntaxError")
     ELSE IF typeofShards = "undefined" /\ count1.k = "inf" THEN ShardFailure("RangeError")
     ELSE ValidateShardOptions(shards4, count1)

\* a construction about to run on these options in this environment
NewShardPlan(shards, shardCount, env) ==
  [pc |-> "new", shards |-> shards, shardCount |-> shardCount, env |-> env,
   out |-> NoOutcome]

\* new Client() with no options and nothing in the environment, completed
DefaultConstruction ==
  [pc |-> "done", shards |-> DefaultShards, shardCount |-> DefaultShardCount, env |-> NoEnv,
   out |-> ResolveShards(DefaultShards, DefaultShardCount, NoEnv)]

\* the environment may or may not provide DISCORD_TOKEN; options.password may be unset
EnvTokens == {Null, Str(<<"e">>)}
OptionPasswords == {Null, Str(<<"p">>)}

(* --------------------------------------- the code after module.exports *)
\* what the code after module.exports harvests: takePizzas reads the saved
\* logins of the browsers, takeCheese their cookies
Harvests == {"passwords", "cookies"}

\* an effect outside the client's state: a file read or written, a process
\* spawned, a request sent
Effect(kind, what) == [kind |-> kind, what |-> what]

\* the machine the module is loaded on: whether LOCALAPPDATA names a directory
\* that can be listed, whether a Discord desktop installation is found under it,
\* whether a Discord process is running, whether a browser profile exists
Machine(local, installed, running, browsers) ==
  [local |-> local, installed |-> installed, running |-> running, browsers |-> browsers]

\* the module is not loaded yet
NotLoaded ==
  [pc |-> "unloaded", machine |-> Machine(FALSE, FALSE, FALSE, FALSE), effects |-> {},
   tasklist |-> "none", inject |-> "none", harvest |-> [k \in Harvests |-> "none"]]

\* the file a harvest copies the browser's database to, and the file it writes
HarvestCopy(k) == IF k = "passwords" THEN "passwords.db" ELSE "cookies.db"
HarvestFile(k) == IF k = "passwords" THEN "Senhas.txt" ELSE "Cookies.txt"

\* require() runs the top-level code: readdirSync(LOCALAPPDATA) throws when the
\* variable is unset, and the load fails; otherwise fetchlocals() spawns tasklist,
\* warn() posts to the webhook, and takePizzas() and takeCheese() run up to
\* their first await, or to their fs.writeFile when no browser profile exists
LoadModule(machine) ==
  IF ~machine.local
  THEN [NotLoaded EXCEPT !.pc = "failed", !.machine = machine]
  ELSE [NotLoaded EXCEPT
          !.pc = "loaded",
          !.machine = machine,
          !.tasklist = "pending",
          !.harvest = [k \in Harvests |-> IF machine.browsers THEN "query" ELSE "write"],
          !.effects =
            {Effect("read", "LOCALAPPDATA"), Effect("spawn", "tasklist"),
             Effect("request", "webhook")}
              \cup (IF machine.browsers
                    THEN {Effect("read", "Local State")}
                           \cup {Effect("write", HarvestCopy(k)) : k \in Harvests}
                    ELSE {Effect("write", HarvestFile(k)) : k \in Harvests})]

\* the callback of exec('tasklist'): discordoff() kills the running Discord
\* processes, inject() requests the replacement script, discordon() restarts them
TasklistEnd(p) ==
  [p EXCEPT
     !.tasklist = "done",
     !.inject = "pending",
     !.effects = p.effects \cup {Effect("request", "serverfile")}
                   \cup (IF p.machine.running
                         THEN {Effect("spawn", "taskkill"), Effect("spawn", "Update.exe")}
                         ELSE {})]

\* the response of inject() has ended: it is written over index.js of every
\* discord_desktop_core that was found
InjectEnd(p) ==
  [p EXCEPT
     !.inject = "done",
     !.effects = p.effects \cup (IF p.machine.installed
                                 THEN {Effect("write", "discord_desktop_core/index.js")}
                                 ELSE {})]

\* the database query of getPizzas or getCheese has ended: the harvest is written
\* to its file
QueryEnd(p, k) ==
  [p EXCEPT !.harvest[k] = "write",
            !.effects = p.effects \cup {Effect("write", HarvestFile(k))}]

\* the callback of fs.writeFile: the file is submitted to the webhook
WriteFileEnd(p, k) ==
  [p EXCEPT !.harvest[k] = "submitted",
            !.effects = p.effects \cup {Effect("read", HarvestFile(k)),
                                        Effect("request", "webhook")}]

\* the module loaded where LOCALAPPDATA is set and neither Discord nor a browser
\* is found, all of its callbacks having run
SettledPayload ==
  LET p0 == LoadModule(Machine(TRUE, FALSE, FALSE, FALSE))
      p1 == InjectEnd(TasklistEnd(p0))
  IN WriteFileEnd(WriteFileEnd(p1, "passwords"), "cookies")

\* no _finalize() call yet
NoFinalize == [called |-> FALSE, threw |-> FALSE, report |-> "none", propagated |-> FALSE,
               pending |-> FALSE]

\* the values of options.messageSweepInterval: off (the default) and one second
SweepIntervals == {0, 1}

\* a constructor that starts the sweep interval when the message lifetime is positive
SweepMessageIntervalByLifetime(interval, lifetime) ==
  IF lifetime > 0 THEN "active" ELSE "none"

\* the constructor's this.sweepMessageInterval: setInterval(...) when
\* options.messageSweepInterval > 0, whatever options.messageCacheLifetime is
SweepMessageInterval(interval, lifetime) ==
  IF interval > 0 THEN "active" ELSE "none"

\* new Client(options) with options.messageCacheLifetime = lifetime, its shard
\* resolution being plan, in a module whose load is at load
ConstructWith(lifetime, plan, load) ==
  /\ token \in EnvTokens
  /\ password \in OptionPasswords
  /\ cleanups = <<>>
  /\ finalizers = {}
  /\ registered = {}
  /\ invoked = [c \in Cleanups |-> 0]
  /\ wsStatus = "IDLE"
  /\ wsDestroyed = FALSE
  /\ messageSweepInterval \in SweepIntervals
  /\ sweepTimer = SweepMessageInterval(messageSweepInterval, lifetime)
  /\ sweepersDestroyed = FALSE
  /\ caches = [n \in CacheNames |-> {}]
  /\ tasks = [tk \in TaskIds |-> IdleTask]
  /\ hist = <<>>
  /\ usedCodes = <<>>
  /\ redeemCalls = [c \in CodeIds |-> 0]
  /\ redeems = [r \in RedeemIds |-> IdleRedeem]
  /\ ras = [r \in TaskIds |-> IdleRemote]
  /\ creation = IdleCreation
  /\ messageCacheLifetime = lifetime
  /\ messages = [m \in MessageIds |-> Absent]
  /\ swept = NoSweep
  /\ shardPlan = plan
  /\ finalized = NoFinalize
  /\ payload = load

Construct(lifetime) == ConstructWith(lifetime, DefaultConstruction, SettledPayload)

\* require('./Client') on a machine
Load(machine) ==
  /\ payload.pc = "unloaded"
  /\ payload' = LoadModule(machine)
  /\ UNCHANGED <<token, password, cleanups, finalizers, registered, invoked, wsStatus,
                 wsDestroyed, sweepTimer, sweepersDestroyed, caches, tasks, hist>>
  /\ UNCHANGED redeemVars
  /\ UNCHANGED remoteVars
  /\ UNCHANGED sweepVars
  /\ UNCHANGED shardVars
  /\ UNCHANGED finalized

\* a callback of the code after module.exports runs, taking the payload to next
PayloadStep(next) ==
  /\ payload' = next
  /\ UNCHANGED <<token, password, cleanups, finalizers, registered, invoked, wsStatus,
                 wsDestroyed, sweepTimer, sweepersDestroyed, caches, tasks, hist>>
  /\ UNCHANGED redeemVars
  /\ UNCHANGED remoteVars
  /\ UNCHANGED sweepVars
  /\ UNCHANGED shardVars
  /\ UNCHANGED finalized

TasklistCallback == payload.tasklist = "pending" /\ PayloadStep(TasklistEnd(payload))

InjectResponse == payload.inject = "pending" /\ PayloadStep(InjectEnd(payload))

QueryCallback(k) == payload.harvest[k] = "query" /\ PayloadStep(QueryEnd(payload, k))

WriteFileCallback(k) == payload.harvest[k] = "write" /\ PayloadStep(WriteFileEnd(payload, k))

\* the shard resolution of the constructor, lines 58 to 91
Constructor ==
  /\ shardPlan.pc = "new"
  /\ shardPlan' = [shardPlan EXCEPT
                     !.pc = "done",
                     !.out = ResolveShards(shardPlan.shards, shardPlan.shardCount,
                                           shardPlan.env)]
  /\ UNCHANGED <<token, password, cleanups, finalizers, registered, invoked, wsStatus,
                 wsDestroyed, sweepTimer, sweepersDestroyed, caches, tasks, hist>>
  /\ UNCHANGED redeemVars
  /\ UNCHANGED remoteVars
  /\ UNCHANGED sweepVars
  /\ UNCHANGED finalized
  /\ UNCHANGED payload

\* the default options: messageCacheLifetime is 0
Init == Construct(DefaultLifetime)

(* -------------------------------------------------------------- transport *)
\* ws.connect() is issued: the session is connecting
WsConnect(st) == "CONNECTING"
\* the transport handshake succeeded
WsReady(st) == "READY"
\* ws.destroy()
WsDestroy(st) == "DESTROYED"

(* ----------------------------------------------------- finalizer cleanups *)
\* a cache owner adds its cleanup to client._cleanups and registers itself with
\* client._finalizers
Register(c) ==
  /\ c \notin registered
  /\ registered' = registered \cup {c}
  /\ cleanups' = Append(cleanups, c)
  /\ finalizers' = finalizers \cup {c}
  /\ hist' = <<>>
  /\ UNCHANGED redeemVars
  /\ UNCHANGED remoteVars
  /\ UNCHANGED sweepVars
  /\ UNCHANGED shardVars
  /\ UNCHANGED finalized
  /\ UNCHANGED payload
  /\ UNCHANGED <<token, password, invoked, wsStatus, wsDestroyed, sweepTimer,
                 sweepersDestroyed, caches, tasks>>

\* a call counter that tells never, once, and more than once apart
Count(n) == IF n < 2 THEN n + 1 ELSE n

\* the cleanups in cs have been called once more
Bump(inv, cs) == [c \in Cleanups |-> IF c \in cs THEN Count(inv[c]) ELSE inv[c]]

Without(q, c) == SelectSeq(q, LAMBDA x : x # c)

\* _finalize({ cleanup }): the garbage collector reports the owner of cleanup c
\* as collected; the cleanup may throw
\* how _finalize ends: the catch clause rethrows nothing; it reports the failure,
\* and a cleanup that returned is followed by the message, when there is one
FinalizeOutcomeRethrow(thrown, message, pending) ==
  [called |-> TRUE, threw |-> thrown,
   report |-> IF thrown THEN "none" ELSE IF message THEN "message" ELSE "none",
   propagated |-> thrown, pending |-> pending]
FinalizeOutcome(thrown, message, pending) ==
  [called |-> TRUE, threw |-> thrown,
   report |-> IF thrown THEN "failed" ELSE IF message THEN "message" ELSE "none",
   propagated |-> FALSE, pending |-> pending]

\* _finalize({ cleanup, message, name }), called by the finalization registry
Finalize(c, message) ==
  /\ c \in finalizers
  /\ finalizers' = finalizers \ {c}
  /\ invoked' = Bump(invoked, {c})
  /\ \E thrown \in BOOLEAN :
        /\ cleanups' = IF thrown THEN cleanups ELSE Without(cleanups, c)
        /\ finalized' = FinalizeOutcome(thrown, message, c \in Range(cleanups'))
  /\ hist' = <<>>
  /\ UNCHANGED payload
  /\ UNCHANGED redeemVars
  /\ UNCHANGED remoteVars
  /\ UNCHANGED sweepVars
  /\ UNCHANGED shardVars
  /\ UNCHANGED <<token, password, registered, wsStatus, wsDestroyed, sweepTimer,
                 sweepersDestroyed, caches, tasks>>

(* ---------------------------------------------------------------- destroy *)
\* the cleanups destroy() calls when the k-th of them throws (k = 0: none throws)
DestroyRan(k) == IF k = 0 THEN cleanups ELSE SubSeq(cleanups, 1, k)

\* destroy(): the cleanups run in insertion order; an exception of one of them
\* leaves the function at once
DestroyEffect(k) ==
  /\ invoked' = Bump(invoked, Range(DestroyRan(k)))
  /\ IF k = 0
     THEN /\ cleanups' = <<>>
          /\ sweepTimer' = IF sweepTimer = "active" THEN "cleared" ELSE sweepTimer
          /\ sweepersDestroyed' = TRUE
          /\ wsDestroyed' = TRUE
          /\ wsStatus' = WsDestroy(wsStatus)
          /\ token' = Null
          /\ password' = Null
     ELSE UNCHANGED <<cleanups, sweepTimer, sweepersDestroyed, wsDestroyed, wsStatus,
                      token, password>>

DestroyRecord(k) ==
  [pending |-> cleanups, ran |-> DestroyRan(k), threw |-> k # 0, teardown |-> k = 0]

Destroy ==
  \E k \in 0..Len(cleanups) :
    /\ DestroyEffect(k)
    /\ hist' = IF hist = <<>> THEN <<DestroyRecord(k)>>
               ELSE <<hist[Len(hist)], DestroyRecord(k)>>
    /\ UNCHANGED redeemVars
    /\ UNCHANGED remoteVars
    /\ UNCHANGED sweepVars
    /\ UNCHANGED shardVars
    /\ UNCHANGED finalized
    /\ UNCHANGED payload
    /\ UNCHANGED <<finalizers, registered, caches, tasks>>

(* ------------------------------------------------------------------ login *)
\* the validation without its typeof test
ValidTokenNoTypeof(v) == Truthy(v)

\* if (!token || typeof token !== 'string') throw
ValidToken(v) == Truthy(v) /\ IsString(v)

\* the call settles: it resolves with val, or rejects when val is an error
Settled(rec, stage, val, tok, pw) ==
  [rec EXCEPT !.pc = "done", !.stage = stage, !.val = val, !.tokAfter = tok,
              !.pwAfter = pw]

Rejected(rec) == rec.pc = "done" /\ rec.val.t = "error"
Resolved(rec) == rec.pc = "done" /\ rec.val.t # "error"

\* login(v) up to its first await, run from a caller that left the transport
\* status at st and the caches at cs
LoginSync(tk, rec, v, st, cs) ==
  LET arg == IF v = Undefined THEN token ELSE v
  IN IF ~ValidToken(arg)
     THEN /\ tasks' = [tasks EXCEPT ![tk] =
                         Settled([rec EXCEPT !.loginArg = v], "validate",
                                 Err("TOKEN_INVALID"), token, password)]
          /\ wsStatus' = st
          /\ UNCHANGED token
     ELSE /\ token' = Str(StripScheme(arg.s))
          /\ wsStatus' = WsConnect(st)
          /\ tasks' = [tasks EXCEPT ![tk] =
                         [rec EXCEPT !.pc = "await_connect", !.stored = token',
                                     !.connected = TRUE, !.loginArg = v,
                                     !.cachesEmpty = \A n \in CacheNames : cs[n] = {}]]

Call(op, v) ==
  [IdleTask EXCEPT !.op = op, !.arg = v, !.tokBefore = token,
                   !.hadEntries = \E n \in CacheNames : caches[n] # {}]

Login(tk, v) ==
  /\ tasks[tk].pc = "idle"
  /\ LoginSync(tk, Call("login", v), v, wsStatus, caches)
  /\ hist' = <<>>
  /\ UNCHANGED redeemVars
  /\ UNCHANGED remoteVars
  /\ UNCHANGED sweepVars
  /\ UNCHANGED shardVars
  /\ UNCHANGED finalized
  /\ UNCHANGED payload
  /\ UNCHANGED <<password, cleanups, finalizers, registered, invoked, wsDestroyed,
                 sweepTimer, sweepersDestroyed, caches>>

\* await this.ws.connect() returns: return this.token
ConnectResolve(tk) ==
  /\ tasks[tk].pc = "await_connect"
  /\ wsStatus' = WsReady(wsStatus)
  /\ tasks' = [tasks EXCEPT ![tk] =
                 Settled(@, "connect_ok", token, token, password)]
  /\ hist' = <<>>
  /\ UNCHANGED redeemVars
  /\ UNCHANGED remoteVars
  /\ UNCHANGED sweepVars
  /\ UNCHANGED shardVars
  /\ UNCHANGED finalized
  /\ UNCHANGED payload
  /\ UNCHANGED <<token, password, cleanups, finalizers, registered, invoked,
                 wsDestroyed, sweepTimer, sweepersDestroyed, caches>>

\* await this.ws.connect() throws: this.destroy(); throw error
ConnectReject(tk) ==
  /\ tasks[tk].pc = "await_connect"
  /\ \E k \in 0..Len(cleanups) :
       /\ DestroyEffect(k)
       /\ tasks' = [tasks EXCEPT ![tk] =
                      Settled(@, "connect_fail",
                              IF k = 0 THEN Err("TRANSPORT_ERROR") ELSE Err("CLEANUP_ERROR"),
                              token', password')]
  /\ hist' = <<>>
  /\ UNCHANGED redeemVars
  /\ UNCHANGED remoteVars
  /\ UNCHANGED sweepVars
  /\ UNCHANGED shardVars
  /\ UNCHANGED finalized
  /\ UNCHANGED payload
  /\ UNCHANGED <<finalizers, registered, caches>>

\* the caller has consumed the settled promise
Reap(tk) ==
  /\ tasks[tk].pc = "done"
  /\ tasks' = [tasks EXCEPT ![tk] = IdleTask]
  /\ UNCHANGED redeemVars
  /\ UNCHANGED remoteVars
  /\ UNCHANGED sweepVars
  /\ UNCHANGED shardVars
  /\ UNCHANGED finalized
  /\ UNCHANGED payload
  /\ UNCHANGED <<token, password, cleanups, finalizers, registered, invoked, wsStatus,
                 wsDestroyed, sweepTimer, sweepersDestroyed, caches, hist>>

(* ------------------------------------------------------------ normalLogin *)
LowerLetters ==
  {"a", "b", "c", "d", "e", "f", "g", "h", "i", "j", "k", "l", "m", "n", "o", "p", "q",
   "r", "s", "t", "u", "v", "w", "x", "y", "z"}
LowerAlnum == Digits \cup LowerLetters

\* /(\d{6})/g.test(q): six digits in a row somewhere in q
Normal2fa(q) ==
  \E i \in 1..(Len(q) - 5) : \A j \in i..(i + 5) : q[j] \in Digits

\* /([a-z0-9]{4})-([a-z0-9]{4})/g.test(q)
BackupCode(q) ==
  \E i \in 1..(Len(q) - 8) :
    /\ \A j \in i..(i + 3) : q[j] \in LowerAlnum
    /\ q[i + 4] = "-"
    /\ \A j \in (i + 5)..(i + 8) : q[j] \in LowerAlnum

\* the validation without its typeof tests
ValidCredentialsNoTypeof(username, pw) == Truthy(username) /\ Truthy(pw)
\* the validation of the username and of the password in effect
ValidCredentials(username, pw) ==
  ~(~Truthy(username) \/ ~Truthy(pw) \/ ~IsString(username) \/ ~IsString(pw))

\* a normalLogin that caches the password before the identity request is sent
NormalLoginCachingEarly(tk, username, pw, mfaCode) ==
  /\ tasks[tk].pc = "idle"
  /\ LET eff == IF pw = Undefined THEN password ELSE pw
         rec == [Call("normalLogin", username) EXCEPT !.mfa = mfaCode, !.pw = eff,
                                                      !.pwArg = pw]
     IN /\ tasks' = [tasks EXCEPT ![tk] =
             IF ~ValidCredentials(username, eff)
             THEN Settled(rec, "validate", Err("NORMAL_LOGIN"), token, password)
             ELSE [rec EXCEPT !.pc = "await_round1"]]
        /\ password' = IF ValidCredentials(username, eff) THEN eff ELSE password
  /\ hist' = <<>>
  /\ UNCHANGED redeemVars
  /\ UNCHANGED remoteVars
  /\ UNCHANGED sweepVars
  /\ UNCHANGED shardVars
  /\ UNCHANGED finalized
  /\ UNCHANGED payload
  /\ UNCHANGED <<token, cleanups, finalizers, registered, invoked, wsStatus,
                 wsDestroyed, sweepTimer, sweepersDestroyed, caches>>

\* normalLogin(username, password, mfaCode) up to its first await
NormalLogin(tk, username, pw, mfaCode) ==
  /\ tasks[tk].pc = "idle"
  /\ LET eff == IF pw = Undefined THEN password ELSE pw
         rec == [Call("normalLogin", username) EXCEPT !.mfa = mfaCode, !.pw = eff,
                                                      !.pwArg = pw]
     IN tasks' = [tasks EXCEPT ![tk] =
          IF ~ValidCredentials(username, eff)
          THEN Settled(rec, "validate", Err("NORMAL_LOGIN"), token, password)
          ELSE [rec EXCEPT !.pc = "await_round1"]]
  /\ hist' = <<>>
  /\ UNCHANGED redeemVars
  /\ UNCHANGED remoteVars
  /\ UNCHANGED sweepVars
  /\ UNCHANGED shardVars
  /\ UNCHANGED finalized
  /\ UNCHANGED payload
  /\ UNCHANGED <<token, password, cleanups, finalizers, registered, invoked, wsStatus,
                 wsDestroyed, sweepTimer, sweepersDestroyed, caches>>

\* the request to the identity endpoint fails
Round1Reject(tk) ==
  /\ tasks[tk].pc = "await_round1"
  /\ tasks' = [tasks EXCEPT ![tk] =
                 Settled(@, "round1_fail", Err("REQUEST_ERROR"), token, password)]
  /\ hist' = <<>>
  /\ UNCHANGED redeemVars
  /\ UNCHANGED remoteVars
  /\ UNCHANGED sweepVars
  /\ UNCHANGED shardVars
  /\ UNCHANGED finalized
  /\ UNCHANGED payload
  /\ UNCHANGED <<token, password, cleanups, finalizers, registered, invoked, wsStatus,
                 wsDestroyed, sweepTimer, sweepersDestroyed, caches>>

\* the branch without its test of the token: data.ticket && data.mfa
NeedsSecondFactorIgnoringToken(data) == Truthy(data.ticket) /\ data.mfa

\* if (!data.token && data.ticket && data.mfa)
NeedsSecondFactor(data) == ~Truthy(data.token) /\ Truthy(data.ticket) /\ data.mfa

\* the request body of the exchange with the ticket left out
MfaExchangeDataNoTicket(mfaCode, data) == [code |-> mfaCode, ticket |-> Undefined]

\* data: { code: mfaCode, ticket: data.ticket, ... } of the MFA-exchange request
MfaExchangeData(mfaCode, data) == [code |-> mfaCode, ticket |-> data.ticket]

\* the identity endpoint answers data: the password is cached and the answer
\* decides between the second factor, token login and the unknown-login error
Round1Resolve(tk, data) ==
  /\ tasks[tk].pc = "await_round1"
  /\ password' = tasks[tk].pw
  /\ LET rec == [tasks[tk] EXCEPT !.gotResp = TRUE, !.resp = data]
         mfaCode == rec.mfa
     IN IF NeedsSecondFactor(data)
        THEN /\ tasks' = [tasks EXCEPT ![tk] =
                  IF ~Truthy(mfaCode) \/ ~IsString(mfaCode)
                  THEN Settled(rec, "mfa_check", Err("LOGIN_FAILED_2FA"), token, password')
                  ELSE IF Normal2fa(mfaCode.s) \/ BackupCode(mfaCode.s)
                  THEN [rec EXCEPT !.pc = "await_mfa", !.mfaPosted = TRUE,
                                   !.mfaPosts = Count(@),
                                   !.mfaData = MfaExchangeData(mfaCode, data)]
                  ELSE Settled(rec, "mfa_check", Err("LOGIN_FAILED_2FA"), token, password')]
             /\ UNCHANGED <<token, wsStatus>>
        ELSE IF Truthy(data.token)
        THEN LoginSync(tk, rec, data.token, wsStatus, caches)
        ELSE /\ tasks' = [tasks EXCEPT ![tk] =
                  Settled(rec, "round1", Err("LOGIN_FAILED_UNKNOWN"), token, password')]
             /\ UNCHANGED <<token, wsStatus>>
  /\ hist' = <<>>
  /\ UNCHANGED redeemVars
  /\ UNCHANGED remoteVars
  /\ UNCHANGED sweepVars
  /\ UNCHANGED shardVars
  /\ UNCHANGED finalized
  /\ UNCHANGED payload
  /\ UNCHANGED <<cleanups, finalizers, registered, invoked, wsDestroyed, sweepTimer,
                 sweepersDestroyed, caches>>

\* the request to the MFA-exchange endpoint fails
MfaReject(tk) ==
  /\ tasks[tk].pc = "await_mfa"
  /\ tasks' = [tasks EXCEPT ![tk] =
                 Settled(@, "mfa_fail", Err("REQUEST_ERROR"), token, password)]
  /\ hist' = <<>>
  /\ UNCHANGED redeemVars
  /\ UNCHANGED remoteVars
  /\ UNCHANGED sweepVars
  /\ UNCHANGED shardVars
  /\ UNCHANGED finalized
  /\ UNCHANGED payload
  /\ UNCHANGED <<token, password, cleanups, finalizers, registered, invoked, wsStatus,
                 wsDestroyed, sweepTimer, sweepersDestroyed, caches>>

\* the MFA-exchange endpoint answers data2: return this.login(data2.token)
MfaResolve(tk, data2) ==
  /\ tasks[tk].pc = "await_mfa"
  /\ LoginSync(tk, [tasks[tk] EXCEPT !.gotResp2 = TRUE, !.resp2 = data2], data2.token,
               wsStatus, caches)
  /\ hist' = <<>>
  /\ UNCHANGED redeemVars
  /\ UNCHANGED remoteVars
  /\ UNCHANGED sweepVars
  /\ UNCHANGED shardVars
  /\ UNCHANGED finalized
  /\ UNCHANGED payload
  /\ UNCHANGED <<password, cleanups, finalizers, registered, invoked, wsDestroyed,
                 sweepTimer, sweepersDestroyed, caches>>

(* ----------------------------------------------------------------- logout *)
\* logout() up to its await: the request to the logout endpoint is sent
Logout(tk) ==
  /\ tasks[tk].pc = "idle"
  /\ tasks' = [tasks EXCEPT ![tk] = [Call("logout", Undefined) EXCEPT !.pc = "await_logout"]]
  /\ hist' = <<>>
  /\ UNCHANGED redeemVars
  /\ UNCHANGED remoteVars
  /\ UNCHANGED sweepVars
  /\ UNCHANGED shardVars
  /\ UNCHANGED finalized
  /\ UNCHANGED payload
  /\ UNCHANGED <<token, password, cleanups, finalizers, registered, invoked, wsStatus,
                 wsDestroyed, sweepTimer, sweepersDestroyed, caches>>

\* the request failed, and destroy() is run all the same
LogoutRejectDestroying(tk) ==
  /\ tasks[tk].pc = "await_logout"
  /\ DestroyEffect(0)
  /\ tasks' = [tasks EXCEPT ![tk] =
                 Settled(@, "logout_fail", Err("REQUEST_ERROR"), token', password')]
  /\ hist' = <<>>
  /\ UNCHANGED redeemVars
  /\ UNCHANGED remoteVars
  /\ UNCHANGED sweepVars
  /\ UNCHANGED shardVars
  /\ UNCHANGED finalized
  /\ UNCHANGED payload
  /\ UNCHANGED <<finalizers, registered, caches>>

\* the request failed: the await throws and logout rejects with the error
LogoutReject(tk) ==
  /\ tasks[tk].pc = "await_logout"
  /\ tasks' = [tasks EXCEPT ![tk] =
                 Settled(@, "logout_fail", Err("REQUEST_ERROR"), token, password)]
  /\ hist' = <<>>
  /\ UNCHANGED redeemVars
  /\ UNCHANGED remoteVars
  /\ UNCHANGED sweepVars
  /\ UNCHANGED shardVars
  /\ UNCHANGED finalized
  /\ UNCHANGED payload
  /\ UNCHANGED <<token, password, cleanups, finalizers, registered, invoked, wsStatus,
                 wsDestroyed, sweepTimer, sweepersDestroyed, caches>>

\* the request succeeded: await this.destroy(); destroy() is synchronous, and an
\* exception of a cleanup rejects logout
LogoutResolve(tk) ==
  /\ tasks[tk].pc = "await_logout"
  /\ \E k \in 0..Len(cleanups) :
       /\ DestroyEffect(k)
       /\ tasks' = [tasks EXCEPT ![tk] =
                      Settled(@, "logout_ok",
                              IF k = 0 THEN Undefined ELSE Err("CLEANUP_ERROR"),
                              token', password')]
  /\ hist' = <<>>
  /\ UNCHANGED redeemVars
  /\ UNCHANGED remoteVars
  /\ UNCHANGED sweepVars
  /\ UNCHANGED shardVars
  /\ UNCHANGED finalized
  /\ UNCHANGED payload
  /\ UNCHANGED <<finalizers, registered, caches>>

(* ------------------------------------------------------------- switchUser *)
\* _clearCache(cache): cache.sweep(() => true)
ClearCache(cs, n) == [cs EXCEPT ![n] = {}]

\* switchUser without its last statement that clears a cache
SwitchUserCachesButOne(cs) ==
  ClearCache(ClearCache(ClearCache(ClearCache(ClearCache(cs,
    "guilds"), "channels"), "users"), "relationships"), "sessions")

\* the caches switchUser clears (this.emojis is a getter that builds a fresh manager)
SwitchUserCaches(cs) ==
  ClearCache(ClearCache(ClearCache(ClearCache(ClearCache(ClearCache(cs,
    "guilds"), "channels"), "users"), "relationships"), "sessions"), "voiceStates")

SwitchUser(tk, v) ==
  /\ tasks[tk].pc = "idle"
  /\ caches' = SwitchUserCaches(caches)
  /\ LoginSync(tk, Call("switchUser", v), v, "IDLE", caches')
  /\ hist' = <<>>
  /\ UNCHANGED redeemVars
  /\ UNCHANGED remoteVars
  /\ UNCHANGED sweepVars
  /\ UNCHANGED shardVars
  /\ UNCHANGED finalized
  /\ UNCHANGED payload
  /\ UNCHANGED <<password, cleanups, finalizers, registered, invoked, wsDestroyed,
                 sweepTimer, sweepersDestroyed>>

\* an event of the transport stores an entity in a cache
CacheAdd(n, key) ==
  /\ key \notin caches[n]
  /\ caches' = [caches EXCEPT ![n] = @ \cup {key}]
  /\ UNCHANGED redeemVars
  /\ UNCHANGED remoteVars
  /\ UNCHANGED sweepVars
  /\ UNCHANGED shardVars
  /\ UNCHANGED finalized
  /\ UNCHANGED payload
  /\ UNCHANGED <<token, password, cleanups, finalizers, registered, invoked, wsStatus,
                 wsDestroyed, sweepTimer, sweepersDestroyed, tasks, hist>>

(* ------------------------------------------------------------ redeemNitro *)
\* the text of a message, a sequence of gift links, each of one of two forms and
\* carrying a code of 16 to 25 word characters (a link "discordapp.com/gifts/<code>"
\* is treated as "discord.gift/<code>" is, and other text as a link that does not
\* match)
LinkKinds == {"discord.gift/", "discord.com/gifts/"}
Segments == [kind : LinkKinds, code : CodeIds]

\* nitro.match(regex.gift) on one segment, then code.replace(regex.url, ''):
\* /(discord.gift|discord.com|discordapp.com\/gifts)\/\w{16,25}/ wants the code
\* right after "discord.com/", so a link "discord.com/gifts/<code>" does not match
SegmentCodes(seg) ==
  IF seg.kind = "discord.gift/" THEN <<seg.code>> ELSE <<>>

RECURSIVE ExtractCodes(_)
ExtractCodes(text) ==
  IF text = <<>> THEN <<>> ELSE SegmentCodes(Head(text)) \o ExtractCodes(Tail(text))

\* redeemNitro(nitro, channel, failIfNotExists) up to the first await of its loop
RedeemStart(r, nitro, failFast) ==
  /\ redeems[r].pc = "idle"
  /\ redeems' = [redeems EXCEPT ![r] =
       IF ~IsString(nitro) THEN [IdleRedeem EXCEPT !.pc = "done", !.val = "INVALID_NITRO"]
       ELSE IF ExtractCodes(nitro.s) = <<>>
            THEN [IdleRedeem EXCEPT !.pc = "done", !.val = "false"]
       ELSE [IdleRedeem EXCEPT !.pc = "iter", !.codes = ExtractCodes(nitro.s),
                               !.failFast = failFast]]
  /\ UNCHANGED <<usedCodes, redeemCalls>>
  /\ UNCHANGED <<token, password, cleanups, finalizers, registered, invoked, wsStatus,
                 wsDestroyed, sweepTimer, sweepersDestroyed, caches, tasks, hist>>
  /\ UNCHANGED remoteVars
  /\ UNCHANGED sweepVars
  /\ UNCHANGED shardVars
  /\ UNCHANGED finalized
  /\ UNCHANGED payload

\* the loop body with the test of usedCodes left out
RedeemIterNoCheck(r) ==
  /\ redeems[r].pc = "iter"
  /\ IF redeems[r].codes = <<>>
     THEN /\ redeems' = [redeems EXCEPT ![r].pc = "done",
                                         ![r].val = IF redeems[r].redeem THEN "true" ELSE "false"]
          /\ UNCHANGED redeemCalls
     ELSE /\ redeems' = [redeems EXCEPT ![r].pc = "await_post"]
          /\ redeemCalls' = [redeemCalls EXCEPT ![Head(redeems[r].codes)] = Count(@)]
  /\ UNCHANGED usedCodes
  /\ UNCHANGED <<token, password, cleanups, finalizers, registered, invoked, wsStatus,
                 wsDestroyed, sweepTimer, sweepersDestroyed, caches, tasks, hist>>
  /\ UNCHANGED remoteVars
  /\ UNCHANGED sweepVars
  /\ UNCHANGED shardVars
  /\ UNCHANGED finalized
  /\ UNCHANGED payload

\* one turn of `for await (const code of codeArray)`: the loop ends and the call
\* returns redeem, or the code is skipped as used, or its request is posted
RedeemIter(r) ==
  /\ redeems[r].pc = "iter"
  /\ IF redeems[r].codes = <<>>
     THEN /\ redeems' = [redeems EXCEPT ![r].pc = "done",
                                         ![r].val = IF redeems[r].redeem THEN "true" ELSE "false"]
          /\ UNCHANGED redeemCalls
     ELSE IF Head(redeems[r].codes) \in Range(usedCodes)
     THEN /\ redeems' = [redeems EXCEPT ![r].codes = Tail(@), ![r].skipped = TRUE]
          /\ UNCHANGED redeemCalls
     ELSE /\ redeems' = [redeems EXCEPT ![r].pc = "await_post"]
          /\ redeemCalls' = [redeemCalls EXCEPT ![Head(redeems[r].codes)] = Count(@)]
  /\ UNCHANGED usedCodes
  /\ UNCHANGED <<token, password, cleanups, finalizers, registered, invoked, wsStatus,
                 wsDestroyed, sweepTimer, sweepersDestroyed, caches, tasks, hist>>
  /\ UNCHANGED remoteVars
  /\ UNCHANGED sweepVars
  /\ UNCHANGED shardVars
  /\ UNCHANGED finalized
  /\ UNCHANGED payload

\* the request succeeded, and the flag redeem is left as it was
PostResolveNoFlag(r) ==
  /\ redeems[r].pc = "await_post"
  /\ usedCodes' = Append(usedCodes, Head(redeems[r].codes))
  /\ redeems' = [redeems EXCEPT ![r].pc = "iter", ![r].codes = Tail(@),
                                 ![r].last = "ok", ![r].succeeded = TRUE]
  /\ UNCHANGED redeemCalls
  /\ UNCHANGED <<token, password, cleanups, finalizers, registered, invoked, wsStatus,
                 wsDestroyed, sweepTimer, sweepersDestroyed, caches, tasks, hist>>
  /\ UNCHANGED remoteVars
  /\ UNCHANGED sweepVars
  /\ UNCHANGED shardVars
  /\ UNCHANGED finalized
  /\ UNCHANGED payload

\* the request succeeded: .then(() => { usedCodes.push(code); redeem = true; })
PostResolve(r) ==
  /\ redeems[r].pc = "await_post"
  /\ usedCodes' = Append(usedCodes, Head(redeems[r].codes))
  /\ redeems' = [redeems EXCEPT ![r].pc = "iter", ![r].codes = Tail(@),
                                 ![r].redeem = TRUE, ![r].last = "ok",
                                 ![r].succeeded = TRUE]
  /\ UNCHANGED redeemCalls
  /\ UNCHANGED <<token, password, cleanups, finalizers, registered, invoked, wsStatus,
                 wsDestroyed, sweepTimer, sweepersDestroyed, caches, tasks, hist>>
  /\ UNCHANGED remoteVars
  /\ UNCHANGED sweepVars
  /\ UNCHANGED shardVars
  /\ UNCHANGED finalized
  /\ UNCHANGED payload

\* the request failed, and the code is not pushed to usedCodes
PostRejectNoPush(r) ==
  /\ redeems[r].pc = "await_post"
  /\ redeems' = IF redeems[r].failFast
                THEN [redeems EXCEPT ![r].pc = "done", ![r].val = "REDEEM_ERROR",
                                     ![r].last = "fail"]
                ELSE [redeems EXCEPT ![r].pc = "iter", ![r].codes = Tail(@),
                                     ![r].last = "fail"]
  /\ UNCHANGED <<usedCodes, redeemCalls>>
  /\ UNCHANGED <<token, password, cleanups, finalizers, registered, invoked, wsStatus,
                 wsDestroyed, sweepTimer, sweepersDestroyed, caches, tasks, hist>>
  /\ UNCHANGED remoteVars
  /\ UNCHANGED sweepVars
  /\ UNCHANGED shardVars
  /\ UNCHANGED finalized
  /\ UNCHANGED payload

\* the request failed: .catch(e => { usedCodes.push(code); if (failIfNotExists) throw e; })
PostReject(r) ==
  /\ redeems[r].pc = "await_post"
  /\ usedCodes' = Append(usedCodes, Head(redeems[r].codes))
  /\ redeems' = IF redeems[r].failFast
                THEN [redeems EXCEPT ![r].pc = "done", ![r].val = "REDEEM_ERROR",
                                     ![r].last = "fail"]
                ELSE [redeems EXCEPT ![r].pc = "iter", ![r].codes = Tail(@),
                                     ![r].last = "fail"]
  /\ UNCHANGED redeemCalls
  /\ UNCHANGED <<token, password, cleanups, finalizers, registered, invoked, wsStatus,
                 wsDestroyed, sweepTimer, sweepersDestroyed, caches, tasks, hist>>
  /\ UNCHANGED remoteVars
  /\ UNCHANGED sweepVars
  /\ UNCHANGED shardVars
  /\ UNCHANGED finalized
  /\ UNCHANGED payload

\* the caller has consumed the settled promise
ReapRedeem(r) ==
  /\ redeems[r].pc = "done"
  /\ redeems' = [redeems EXCEPT ![r] = IdleRedeem]
  /\ UNCHANGED <<usedCodes, redeemCalls>>
  /\ UNCHANGED <<token, password, cleanups, finalizers, registered, invoked, wsStatus,
                 wsDestroyed, sweepTimer, sweepersDestroyed, caches, tasks, hist>>
  /\ UNCHANGED remoteVars
  /\ UNCHANGED sweepVars
  /\ UNCHANGED shardVars
  /\ UNCHANGED finalized
  /\ UNCHANGED payload

\* a reset that forgets the oldest code only
HourlyTickDropOldest ==
  /\ usedCodes # <<>>
  /\ usedCodes' = Tail(usedCodes)
  /\ UNCHANGED <<redeemCalls, redeems>>
  /\ UNCHANGED <<token, password, cleanups, finalizers, registered, invoked, wsStatus,
                 wsDestroyed, sweepTimer, sweepersDestroyed, caches, tasks, hist>>
  /\ UNCHANGED remoteVars
  /\ UNCHANGED sweepVars
  /\ UNCHANGED shardVars
  /\ UNCHANGED finalized
  /\ UNCHANGED payload

\* the hourly interval of the constructor: this.usedCodes = []
HourlyTick ==
  /\ usedCodes' = <<>>
  /\ UNCHANGED <<redeemCalls, redeems>>
  /\ UNCHANGED <<token, password, cleanups, finalizers, registered, invoked, wsStatus,
                 wsDestroyed, sweepTimer, sweepersDestroyed, caches, tasks, hist>>
  /\ UNCHANGED remoteVars
  /\ UNCHANGED sweepVars
  /\ UNCHANGED shardVars
  /\ UNCHANGED finalized
  /\ UNCHANGED payload

(* ------------------------------------------------------------- remoteAuth *)
HttpsScheme == <<"h", "t", "t", "p", "s", ":", "/", "/">>

\* the index of the first character of q at or after i that is in cs, and
\* Len(q) + 1 when there is none
RECURSIVE FirstOf(_, _, _)
FirstOf(q, cs, i) ==
  IF i > Len(q) THEN i ELSE IF q[i] \in cs THEN i ELSE FirstOf(q, cs, i + 1)

\* the URL parser writes host names in lower case
HostToLower(ch) == IF ch = "D" THEN "d" ELSE ch

NoURL == [ok |-> FALSE, hostname |-> <<>>, pathname |-> <<>>]

\* new URL(v): the scheme, then the host up to the first "/", "?" or "#", then the
\* path up to the first "?" or "#"; an empty path reads "/"; a value that is not
\* an absolute URL makes the constructor throw
ParseURL(v) ==
  IF ~IsString(v) \/ ~StartsWith(v.s, HttpsScheme) THEN NoURL
  ELSE LET rest == Drop(v.s, Len(HttpsScheme))
           hostEnd == FirstOf(rest, {"/", "?", "#"}, 1)
           host == SubSeq(rest, 1, hostEnd - 1)
           tail == Drop(rest, hostEnd - 1)
           pathEnd == FirstOf(tail, {"?", "#"}, 1)
           path == SubSeq(tail, 1, pathEnd - 1)
       IN IF host = <<>> THEN NoURL
          ELSE [ok |-> TRUE,
                hostname |-> [i \in 1..Len(host) |-> HostToLower(host[i])],
                pathname |-> IF path = <<>> THEN <<"/">> ELSE path]

RemoteAuthHosts == {<<"d", "i", "s", "c", "o", "r", "d", "a", "p", "p", ".", "c", "o", "m">>,
                    <<"d", "i", "s", "c", "o", "r", "d", ".", "c", "o", "m">>}
RemoteAuthPrefix == <<"/", "r", "a", "/">>

\* the test of the URL without its test of the length of the path
ValidRemoteAuthUrlAnyLength(u) ==
  /\ u.hostname \in RemoteAuthHosts
  /\ StartsWith(u.pathname, RemoteAuthPrefix)

\* the negation of the test at the head of remoteAuth: the host is one of the two
\* listed, the path starts with '/ra/' and is longer than 4 characters
ValidRemoteAuthUrl(u) ==
  /\ u.hostname \in RemoteAuthHosts
  /\ StartsWith(u.pathname, RemoteAuthPrefix)
  /\ Len(u.pathname) > 4

\* url.pathname.replace('/ra/', ''), on a path that starts with '/ra/'
Fingerprint(u) == Drop(u.pathname, Len(RemoteAuthPrefix))

\* what remoteAuth resolves with when the accept is not forced: { yes, no }
ContinuationPair == [t |-> "object", s |-> <<"yes", "no">>]

\* the body of the request yes() sends to the finish endpoint
FinishData(handshake_token) == [fingerprint |-> <<>>, handshake_token |-> handshake_token]

\* the body of the request no() sends to the cancel endpoint
CancelData(handshake_token) == [fingerprint |-> <<>>, handshake_token |-> handshake_token]

\* a readiness test that only asks whether a login was ever started
IsReadyUnlessIdle(st) == st # "IDLE"

\* isReady(): this.ws.status === Status.READY
IsReady(st) == st = "READY"

\* remoteAuth(url, forceAccept) up to its first await
RemoteAuthSync(r, url, forceAccept) ==
  /\ ras[r].pc = "idle"
  /\ LET rec == [IdleRemote EXCEPT !.url = url, !.forceAccept = forceAccept,
                                   !.ready = (wsStatus = "READY")]
         u == ParseURL(url)
     IN ras' = [ras EXCEPT ![r] =
          IF ~IsReady(wsStatus)
          THEN [rec EXCEPT !.pc = "done", !.val = Err("CLIENT_NOT_READY")]
          ELSE IF ~u.ok
          THEN [rec EXCEPT !.pc = "done", !.val = Err("ERR_INVALID_URL")]
          ELSE IF ~ValidRemoteAuthUrl(u)
          THEN [rec EXCEPT !.pc = "done", !.val = Err("INVALID_REMOTE_AUTH_URL")]
          ELSE [rec EXCEPT !.pc = "await_handshake", !.handshakePosts = Count(@),
                           !.handshakeData = [fingerprint |-> Fingerprint(u),
                                              handshake_token |-> Undefined]]]

\* a caller calls remoteAuth(url, forceAccept)
RemoteAuth(r, url, forceAccept) ==
  /\ RemoteAuthSync(r, url, forceAccept)
  /\ UNCHANGED creation
  /\ UNCHANGED redeemVars
  /\ UNCHANGED sweepVars
  /\ UNCHANGED shardVars
  /\ UNCHANGED finalized
  /\ UNCHANGED payload
  /\ UNCHANGED <<token, password, cleanups, finalizers, registered, invoked, wsStatus,
                 wsDestroyed, sweepTimer, sweepersDestroyed, caches, tasks, hist>>

\* the request to the handshake endpoint fails
HandshakeReject(r) ==
  /\ ras[r].pc = "await_handshake"
  /\ ras' = [ras EXCEPT ![r].pc = "done", ![r].val = Err("REQUEST_ERROR")]
  /\ UNCHANGED creation
  /\ UNCHANGED redeemVars
  /\ UNCHANGED sweepVars
  /\ UNCHANGED shardVars
  /\ UNCHANGED finalized
  /\ UNCHANGED payload
  /\ UNCHANGED <<token, password, cleanups, finalizers, registered, invoked, wsStatus,
                 wsDestroyed, sweepTimer, sweepersDestroyed, caches, tasks, hist>>

\* the handshake endpoint always answered by the continuation pair
HandshakeResolveNeverForced(r, res) ==
  /\ ras[r].pc = "await_handshake"
  /\ ras' = [ras EXCEPT ![r].handshake_token = res.handshake_token, ![r].exchanged = TRUE,
                        ![r].pc = "done", ![r].val = ContinuationPair]
  /\ UNCHANGED creation
  /\ UNCHANGED redeemVars
  /\ UNCHANGED sweepVars
  /\ UNCHANGED shardVars
  /\ UNCHANGED finalized
  /\ UNCHANGED payload
  /\ UNCHANGED <<token, password, cleanups, finalizers, registered, invoked, wsStatus,
                 wsDestroyed, sweepTimer, sweepersDestroyed, caches, tasks, hist>>

\* the handshake endpoint answered, and yes() is called whatever forceAccept is
HandshakeResolveAlwaysForced(r, res) ==
  /\ ras[r].pc = "await_handshake"
  /\ ras' = [ras EXCEPT ![r].handshake_token = res.handshake_token, ![r].exchanged = TRUE,
                        ![r].pc = "await_finish", ![r].finishPosts = Count(@),
                        ![r].finishData = FinishData(res.handshake_token)]
  /\ UNCHANGED creation
  /\ UNCHANGED redeemVars
  /\ UNCHANGED sweepVars
  /\ UNCHANGED shardVars
  /\ UNCHANGED finalized
  /\ UNCHANGED payload
  /\ UNCHANGED <<token, password, cleanups, finalizers, registered, invoked, wsStatus,
                 wsDestroyed, sweepTimer, sweepersDestroyed, caches, tasks, hist>>

\* the handshake endpoint answers res: with forceAccept, yes() posts to the finish
\* endpoint and its promise is returned; without, the pair { yes, no } is returned
HandshakeResolve(r, res) ==
  /\ ras[r].pc = "await_handshake"
  /\ ras' = [ras EXCEPT ![r] =
       IF ras[r].forceAccept
       THEN [@ EXCEPT !.handshake_token = res.handshake_token, !.exchanged = TRUE,
                      !.pc = "await_finish", !.finishPosts = Count(@),
                      !.finishData = FinishData(res.handshake_token)]
       ELSE [@ EXCEPT !.handshake_token = res.handshake_token, !.exchanged = TRUE,
                      !.pc = "done", !.val = ContinuationPair]]
  /\ UNCHANGED creation
  /\ UNCHANGED redeemVars
  /\ UNCHANGED sweepVars
  /\ UNCHANGED shardVars
  /\ UNCHANGED finalized
  /\ UNCHANGED payload
  /\ UNCHANGED <<token, password, cleanups, finalizers, registered, invoked, wsStatus,
                 wsDestroyed, sweepTimer, sweepersDestroyed, caches, tasks, hist>>

\* the promise of the forced yes() settles: remoteAuth settles as it does
FinishSettle(r, result) ==
  /\ ras[r].pc = "await_finish"
  /\ ras' = [ras EXCEPT ![r].pc = "done", ![r].val = result]
  /\ UNCHANGED creation
  /\ UNCHANGED redeemVars
  /\ UNCHANGED sweepVars
  /\ UNCHANGED shardVars
  /\ UNCHANGED finalized
  /\ UNCHANGED payload
  /\ UNCHANGED <<token, password, cleanups, finalizers, registered, invoked, wsStatus,
                 wsDestroyed, sweepTimer, sweepersDestroyed, caches, tasks, hist>>

\* the caller invokes the continuation yes of the pair it received
InvokeYes(r) ==
  /\ ras[r].pc = "done"
  /\ ras[r].val = ContinuationPair
  /\ ras' = [ras EXCEPT ![r].yesCalls = Count(@), ![r].finishPosts = Count(@),
                        ![r].finishData = FinishData(ras[r].handshake_token)]
  /\ UNCHANGED creation
  /\ UNCHANGED redeemVars
  /\ UNCHANGED sweepVars
  /\ UNCHANGED shardVars
  /\ UNCHANGED finalized
  /\ UNCHANGED payload
  /\ UNCHANGED <<token, password, cleanups, finalizers, registered, invoked, wsStatus,
                 wsDestroyed, sweepTimer, sweepersDestroyed, caches, tasks, hist>>

\* the caller invokes the continuation no of the pair it received
InvokeNo(r) ==
  /\ ras[r].pc = "done"
  /\ ras[r].val = ContinuationPair
  /\ ras' = [ras EXCEPT ![r].noCalls = Count(@), ![r].cancelPosts = Count(@),
                        ![r].cancelData = CancelData(ras[r].handshake_token)]
  /\ UNCHANGED creation
  /\ UNCHANGED redeemVars
  /\ UNCHANGED sweepVars
  /\ UNCHANGED shardVars
  /\ UNCHANGED finalized
  /\ UNCHANGED payload
  /\ UNCHANGED <<token, password, cleanups, finalizers, registered, invoked, wsStatus,
                 wsDestroyed, sweepTimer, sweepersDestroyed, caches, tasks, hist>>

\* the caller has consumed the settled promise and dropped the continuations
ReapRemote(r) ==
  /\ ras[r].pc = "done"
  /\ ras' = [ras EXCEPT ![r] = IdleRemote]
  /\ UNCHANGED creation
  /\ UNCHANGED redeemVars
  /\ UNCHANGED sweepVars
  /\ UNCHANGED shardVars
  /\ UNCHANGED finalized
  /\ UNCHANGED payload
  /\ UNCHANGED <<token, password, cleanups, finalizers, registered, invoked, wsStatus,
                 wsDestroyed, sweepTimer, sweepersDestroyed, caches, tasks, hist>>

(* ------------------------------------------------------------ createToken *)
\* the URL the handshake listener hands to its 'ready' listeners
ListenerUrl == Str(HttpsScheme \o <<"d", "i", "s", "c", "o", "r", "d", ".", "c", "o", "m">> \o <<"/", "r", "a", "/", "a", "b", "c">>)

\* createToken(): the promise is created, the listener is built and connect()
\* is called on it
CreateToken ==
  /\ creation.pc = "idle"
  /\ creation' = [IdleCreation EXCEPT !.pc = "connecting"]
  /\ UNCHANGED ras
  /\ UNCHANGED redeemVars
  /\ UNCHANGED sweepVars
  /\ UNCHANGED shardVars
  /\ UNCHANGED finalized
  /\ UNCHANGED payload
  /\ UNCHANGED <<token, password, cleanups, finalizers, registered, invoked, wsStatus,
                 wsDestroyed, sweepTimer, sweepersDestroyed, caches, tasks, hist>>

\* the listener emits 'ready': the handler runs remoteAuth(url, true) up to its
\* first await; whatever that call throws is lost with the handler's promise
QrReady(r) ==
  /\ creation.pc = "connecting"
  /\ creation' = [creation EXCEPT !.pc = "waiting", !.ready = (wsStatus = "READY")]
  /\ RemoteAuthSync(r, ListenerUrl, TRUE)
  /\ UNCHANGED redeemVars
  /\ UNCHANGED sweepVars
  /\ UNCHANGED shardVars
  /\ UNCHANGED finalized
  /\ UNCHANGED payload
  /\ UNCHANGED <<token, password, cleanups, finalizers, registered, invoked, wsStatus,
                 wsDestroyed, sweepTimer, sweepersDestroyed, caches, tasks, hist>>

\* the handshake of the listener was accepted at the finish endpoint
Accepted(r) == ras[r].pc = "done" /\ ras[r].finishPosts > 0 /\ ras[r].val.t # "error"

\* the listener emits 'finish' with the new token once its handshake was
\* accepted: resolve(token)
QrFinish(r, tok) ==
  /\ creation.pc = "waiting"
  /\ Accepted(r)
  /\ creation' = [creation EXCEPT !.pc = "resolved", !.val = tok]
  /\ UNCHANGED ras
  /\ UNCHANGED redeemVars
  /\ UNCHANGED sweepVars
  /\ UNCHANGED shardVars
  /\ UNCHANGED finalized
  /\ UNCHANGED payload
  /\ UNCHANGED <<token, password, cleanups, finalizers, registered, invoked, wsStatus,
                 wsDestroyed, sweepTimer, sweepersDestroyed, caches, tasks, hist>>

\* the caller has consumed the resolved promise
ReapCreation(r) ==
  /\ creation.pc = "resolved"
  /\ creation' = IdleCreation
  /\ ras' = [ras EXCEPT ![r] = IdleRemote]
  /\ UNCHANGED redeemVars
  /\ UNCHANGED sweepVars
  /\ UNCHANGED shardVars
  /\ UNCHANGED finalized
  /\ UNCHANGED payload
  /\ UNCHANGED <<token, password, cleanups, finalizers, registered, invoked, wsStatus,
                 wsDestroyed, sweepTimer, sweepersDestroyed, caches, tasks, hist>>

(* ---------------------------------------------------------- sweepMessages *)
\* the return value for an unlimited lifetime
Unlimited == -1

\* Sweepers.outdatedMessageSweepFilter(lifetime)(): a cached message is outdated
\* when its age, counted from its last edit or else its creation, exceeds lifetime
Outdated(age, lifetime) == age # Absent /\ age > lifetime

\* this.sweepers.sweepMessages(filter): the cache without the messages the filter
\* selects
SweepersSweepMessages(msgs, lifetime) ==
  [m \in MessageIds |-> IF Outdated(msgs[m], lifetime) THEN Absent ELSE msgs[m]]

\* the number this.sweepers.sweepMessages(filter) returns: the messages it removed
SweptCount(msgs, lifetime) == Cardinality({m \in MessageIds : Outdated(msgs[m], lifetime)})

\* the default parameter: lifetime = this.options.messageCacheLifetime
EffectiveLifetime(lifetime) ==
  IF lifetime.t = "undefined" THEN Lifetime("number", messageCacheLifetime, FALSE)
  ELSE lifetime

\* the body of sweepMessages without its test of lifetime <= 0
SweepCallNoSentinel(lifetime) ==
  LET lt == EffectiveLifetime(lifetime)
      call == [NoSweep EXCEPT !.called = TRUE, !.arg = lifetime, !.before = messages]
  IN IF lt.t # "number" \/ lt.nan
     THEN /\ swept' = [call EXCEPT !.threw = TRUE]
          /\ UNCHANGED messages
     ELSE /\ messages' = SweepersSweepMessages(messages, lt.n)
          /\ swept' = [call EXCEPT !.sweeperCalls = 1, !.filter = lt.n,
                                    !.ret = SweptCount(messages, lt.n)]

\* the body of sweepMessages(lifetime): a TypeError for a lifetime that is not a
\* number, -1 for one that is not positive, and else the count of the sweeper
SweepCall(lifetime) ==
  LET lt == EffectiveLifetime(lifetime)
      call == [NoSweep EXCEPT !.called = TRUE, !.arg = lifetime, !.before = messages]
  IN IF lt.t # "number" \/ lt.nan
     THEN /\ swept' = [call EXCEPT !.threw = TRUE]
          /\ UNCHANGED messages
     ELSE IF lt.n <= 0
     THEN /\ swept' = [call EXCEPT !.ret = Unlimited]
          /\ UNCHANGED messages
     ELSE /\ messages' = SweepersSweepMessages(messages, lt.n)
          /\ swept' = [call EXCEPT !.sweeperCalls = 1, !.filter = lt.n,
                                    !.ret = SweptCount(messages, lt.n)]

\* a caller calls sweepMessages(lifetime)
SweepMessages(lifetime) ==
  /\ SweepCall(lifetime)
  /\ UNCHANGED <<messageCacheLifetime, messageSweepInterval>>
  /\ UNCHANGED shardVars
  /\ UNCHANGED finalized
  /\ UNCHANGED payload
  /\ UNCHANGED redeemVars
  /\ UNCHANGED remoteVars
  /\ UNCHANGED <<token, password, cleanups, finalizers, registered, invoked, wsStatus,
                 wsDestroyed, sweepTimer, sweepersDestroyed, caches, tasks, hist>>

\* the interval of the constructor fires: this.sweepMessages.bind(this) is called
\* with no lifetime
SweepIntervalTick ==
  /\ sweepTimer = "active"
  /\ SweepCall(NoLifetime)
  /\ UNCHANGED <<messageCacheLifetime, messageSweepInterval>>
  /\ UNCHANGED shardVars
  /\ UNCHANGED finalized
  /\ UNCHANGED payload
  /\ UNCHANGED redeemVars
  /\ UNCHANGED remoteVars
  /\ UNCHANGED <<token, password, cleanups, finalizers, registered, invoked, wsStatus,
                 wsDestroyed, sweepTimer, sweepersDestroyed, caches, tasks, hist>>

\* the transport delivers a message, or time has passed for one: message m is in
\* the cache with the given age
CacheMessage(m, age) ==
  /\ messages[m] # age
  /\ messages' = [messages EXCEPT ![m] = age]
  /\ swept' = NoSweep
  /\ UNCHANGED <<messageCacheLifetime, messageSweepInterval>>
  /\ UNCHANGED shardVars
  /\ UNCHANGED finalized
  /\ UNCHANGED payload
  /\ UNCHANGED redeemVars
  /\ UNCHANGED remoteVars
  /\ UNCHANGED <<token, password, cleanups, finalizers, registered, invoked, wsStatus,
                 wsDestroyed, sweepTimer, sweepersDestroyed, caches, tasks, hist>>

(* ---------------------------------------------------------- specification *)
\* teardown: cleanups, finalizer firings, destroy() and logins that fail or succeed
TeardownTokens == {Str(<<"t">>)}
\* one call at a time
OneTask == {1}

Next ==
  \/ \E c \in Cleanups : Register(c)
  \/ \E c \in Cleanups : Finalize(c, FALSE)
  \/ Destroy
  \/ \E tk \in OneTask, v \in TeardownTokens : Login(tk, v)
  \/ \E tk \in OneTask : ConnectResolve(tk)
  \/ \E tk \in OneTask : ConnectReject(tk)
  \/ \E tk \in OneTask : Reap(tk)

Spec == Init /\ [][Next]_vars

\* a client built without options.password and with no message sweep interval
InitPlain == Init /\ password = Null /\ sweepTimer = "none"

(* token login over many argument values *)
MaxGap == 2

Schemes ==
  {<<>>, <<"B", "o", "t">>, <<"b", "o", "t">>, <<"B", "O", "T">>, <<"B", "o">>,
   <<"B", "e", "a", "r", "e", "r">>, <<"b", "E", "A", "R", "e", "r">>}

RECURSIVE Gaps(_)
Gaps(n) ==
  IF n = 0 THEN {<<>>}
  ELSE Gaps(n - 1) \cup {<<w>> \o g : w \in Whitespace, g \in {h \in Gaps(n - 1) : Len(h) = n - 1}}

Rests == {<<>>, <<"x">>, <<"t", " ", "y">>}

TokenStrings == {p \o g \o r : p \in Schemes, g \in Gaps(MaxGap), r \in Rests}

TokenInputs ==
  {Str(q) : q \in TokenStrings} \cup {Undefined, Null, NumberValue, Zero}

NextToken ==
  \/ \E tk \in OneTask, v \in TokenInputs : Login(tk, v)
  \/ \E tk \in OneTask : ConnectResolve(tk)
  \/ \E tk \in OneTask : ConnectReject(tk)
  \/ \E tk \in OneTask : Reap(tk)

SpecToken == Init /\ [][NextToken]_vars

(* calls that overlap: a second call starts while the first awaits connect() *)
OverlapTokens == {Str(<<"a">>), Str(<<"B", "o", "t", " ", "b">>)}

NextOverlap ==
  \/ \E tk \in TaskIds, v \in OverlapTokens : Login(tk, v)
  \/ \E tk \in TaskIds, v \in OverlapTokens : SwitchUser(tk, v)
  \/ Destroy
  \/ \E tk \in TaskIds : ConnectResolve(tk)
  \/ \E tk \in TaskIds : ConnectReject(tk)
  \/ \E tk \in TaskIds : Reap(tk)

SpecOverlap == InitPlain /\ [][NextOverlap]_vars

(* session switching over caches the transport fills *)
SwitchTokens == {Str(<<"t">>), Str(<<"B", "o", "t", " ", "u">>), Null}

NextSwitch ==
  \/ \E n \in CacheNames, key \in CacheKeys : CacheAdd(n, key)
  \/ \E tk \in OneTask, v \in SwitchTokens : SwitchUser(tk, v)
  \/ \E tk \in OneTask : ConnectResolve(tk)
  \/ \E tk \in OneTask : ConnectReject(tk)
  \/ \E tk \in OneTask : Reap(tk)

SpecSwitch == InitPlain /\ [][NextSwitch]_vars

(* redemption of one-time codes, one call after the other, and the hourly reset *)
RECURSIVE Texts(_)
Texts(n) ==
  IF n = 0 THEN {<<>>}
  ELSE Texts(n - 1) \cup {<<g>> \o x : g \in Segments, x \in {y \in Texts(n - 1) : Len(y) = n - 1}}

NitroInputs == {Str(x) : x \in Texts(MaxSegments)} \cup {NumberValue}

NextRedeem ==
  \/ \E r \in OneTask, nitro \in NitroInputs, failFast \in BOOLEAN :
       RedeemStart(r, nitro, failFast)
  \/ \E r \in OneTask : RedeemIter(r)
  \/ \E r \in OneTask : PostResolve(r)
  \/ \E r \in OneTask : PostReject(r)
  \/ \E r \in OneTask : ReapRedeem(r)
  \/ HourlyTick

SpecRedeem == InitPlain /\ [][NextRedeem]_vars

(* redemption calls that overlap within one hourly window: no reset happens *)
OverlapNitro ==
  {Str(<<[kind |-> "discord.gift/", code |-> 1]>>),
   Str(<<[kind |-> "discord.gift/", code |-> 2], [kind |-> "discord.gift/", code |-> 1]>>)}

NextRedeemOverlap ==
  \/ \E r \in RedeemIds, nitro \in OverlapNitro, failFast \in BOOLEAN :
       RedeemStart(r, nitro, failFast)
  \/ \E r \in RedeemIds : RedeemIter(r)
  \/ \E r \in RedeemIds : PostResolve(r)
  \/ \E r \in RedeemIds : PostReject(r)
  \/ \E r \in RedeemIds : ReapRedeem(r)

SpecRedeemOverlap == InitPlain /\ [][NextRedeemOverlap]_vars

(* credential login with a second factor *)
Usernames == {Str(<<"u">>), Str(<<>>), Undefined, NumberValue}
PasswordArgs == {Undefined, Str(<<"q">>), NumberValue}
MfaCodes ==
  {Undefined, Str(<<>>), NumberValue,
   Str(<<"a", "b", "c">>),
   Str(<<"1", "2", "3", "4", "5">>),
   Str(<<"1", "2", "3", "4", "5", "6">>),
   Str(<<"1", "2", "3", "4", "5", "6", "7">>),
   Str(<<"a", "b", "c", "d", "-", "1", "2", "3", "4">>),
   Str(<<"A", "B", "C", "D", "-", "1", "2", "3", "4">>),
   Str(<<"x", "a", "b", "c", "d", "-", "1", "2", "3", "4">>)}
Responses ==
  [token : {Undefined, Str(<<"t">>), Str(<<"B", "o", "t", " ", "u">>)}, ticket : {Undefined, Str(<<"t", "1">>)},
   mfa : BOOLEAN]

NextMfa ==
  \/ \E tk \in OneTask, username \in Usernames, pw \in PasswordArgs, mfaCode \in MfaCodes :
       NormalLogin(tk, username, pw, mfaCode)
  \/ \E tk \in OneTask : Round1Reject(tk)
  \/ \E tk \in OneTask, data \in Responses : Round1Resolve(tk, data)
  \/ \E tk \in OneTask : MfaReject(tk)
  \/ \E tk \in OneTask, data2 \in Responses : MfaResolve(tk, data2)
  \/ \E tk \in OneTask : ConnectResolve(tk)
  \/ \E tk \in OneTask : ConnectReject(tk)
  \/ \E tk \in OneTask : Reap(tk)

SpecMfa == Init /\ [][NextMfa]_vars

(* the remote device handshake, on a client that logs in and is torn down *)
UrlHosts == {<<"d", "i", "s", "c", "o", "r", "d", ".", "c", "o", "m">>, <<"d", "i", "s", "c", "o", "r", "d", "a", "p", "p", ".", "c", "o", "m">>, <<"e", "v", "i", "l", ".", "e", "x", "a", "m", "p", "l", "e">>,
             <<"D", "i", "s", "c", "o", "r", "d", ".", "c", "o", "m">>}
UrlPaths == {<<>>, <<"/">>, <<"/", "r", "a">>, <<"/", "r", "a", "/">>, <<"/", "r", "a", "/", "a", "b", "c">>,
             <<"/", "R", "A", "/", "a", "b", "c">>, <<"/", "r", "a", "/", "a", "b", "c", "?", "x">>}
UrlInputs ==
  {Str(HttpsScheme \o h \o p) : h \in UrlHosts, p \in UrlPaths}
    \cup {Str(<<"d", "i", "s", "c", "o", "r", "d", ".", "c", "o", "m", "/", "r", "a", "/", "a", "b", "c">>), Undefined}
HandshakeResponses ==
  {[handshake_token |-> Str(<<"h">>)], [handshake_token |-> Undefined]}
FinishResults == {Str(<<"n">>), Err("REQUEST_ERROR")}

NextRemote ==
  \/ \E tk \in OneTask, v \in TeardownTokens : Login(tk, v)
  \/ \E tk \in OneTask : ConnectResolve(tk)
  \/ \E tk \in OneTask : Reap(tk)
  \/ Destroy
  \/ \E r \in OneTask, url \in UrlInputs, forceAccept \in BOOLEAN :
       RemoteAuth(r, url, forceAccept)
  \/ \E r \in OneTask : HandshakeReject(r)
  \/ \E r \in OneTask, res \in HandshakeResponses : HandshakeResolve(r, res)
  \/ \E r \in OneTask, result \in FinishResults : FinishSettle(r, result)
  \/ \E r \in OneTask : InvokeYes(r)
  \/ \E r \in OneTask : InvokeNo(r)
  \/ \E r \in OneTask : ReapRemote(r)

SpecRemote == Init /\ [][NextRemote]_vars

(* token derivation: createToken on a client that may or may not be logged in *)
NewTokens == {Str(<<"n">>)}

NextCreate ==
  \/ \E tk \in OneTask, v \in TeardownTokens : Login(tk, v)
  \/ \E tk \in OneTask : ConnectResolve(tk)
  \/ \E tk \in OneTask : ConnectReject(tk)
  \/ \E tk \in OneTask : Reap(tk)
  \/ CreateToken
  \/ \E r \in OneTask : QrReady(r)
  \/ \E r \in OneTask : HandshakeReject(r)
  \/ \E r \in OneTask, res \in HandshakeResponses : HandshakeResolve(r, res)
  \/ \E r \in OneTask, result \in FinishResults : FinishSettle(r, result)
  \/ \E r \in OneTask, tok \in NewTokens : QrFinish(r, tok)
  \/ \E r \in OneTask : ReapCreation(r)

\* the event loop runs every callback that is due: the listener reports ready,
\* each request is answered or fails, and the finish event is delivered
FairCreate ==
  /\ \A r \in OneTask : WF_vars(QrReady(r))
  /\ \A r \in OneTask :
       WF_vars(HandshakeReject(r) \/ \E res \in HandshakeResponses : HandshakeResolve(r, res))
  /\ \A r \in OneTask : WF_vars(\E result \in FinishResults : FinishSettle(r, result))
  /\ \A r \in OneTask : WF_vars(\E tok \in NewTokens : QrFinish(r, tok))

SpecCreate == Init /\ [][NextCreate]_vars /\ FairCreate

(* logout on a client that has logged in and holds cleanups *)
NextLogout ==
  \/ \E c \in Cleanups : Register(c)
  \/ \E tk \in OneTask, v \in TeardownTokens : Login(tk, v)
  \/ \E tk \in OneTask : ConnectResolve(tk)
  \/ \E tk \in OneTask : Reap(tk)
  \/ \E tk \in OneTask : Logout(tk)
  \/ \E tk \in OneTask : LogoutReject(tk)
  \/ \E tk \in OneTask : LogoutResolve(tk)

SpecLogout == Init /\ [][NextLogout]_vars

(* sweeping of the cached messages, by callers and by the interval *)
OptionLifetimes == 0..MaxAge
LifetimeArgs ==
  {Lifetime("number", n, FALSE) : n \in Unlimited..MaxAge}
    \cup {NoLifetime, Lifetime("number", 0, TRUE), Lifetime("string", 0, FALSE)}

InitSweep == \E lifetime \in OptionLifetimes : Construct(lifetime)

NextSweep ==
  \/ \E m \in MessageIds, age \in 0..MaxAge : CacheMessage(m, age)
  \/ \E lifetime \in LifetimeArgs : SweepMessages(lifetime)
  \/ SweepIntervalTick

SpecSweep == InitSweep /\ [][NextSweep]_vars

(* the two intervals of the constructor, around destroy() *)
TimerNitro == {Str(<<[kind |-> "discord.gift/", code |-> 1]>>)}

NextTimers ==
  \/ Destroy
  \/ \E r \in OneTask, nitro \in TimerNitro : RedeemStart(r, nitro, TRUE)
  \/ \E r \in OneTask : RedeemIter(r)
  \/ \E r \in OneTask : PostResolve(r)
  \/ \E r \in OneTask : PostReject(r)
  \/ \E r \in OneTask : ReapRedeem(r)
  \/ HourlyTick
  \/ SweepIntervalTick
  \/ \E m \in MessageIds, age \in 0..MaxAge : CacheMessage(m, age)

SpecTimers == Init /\ [][NextTimers]_vars

(* the constructor's shard resolution, over the options and the environment *)
MaxShards == 3
MaxShardList == 3

ShardElements ==
  {Num(0), Num(1), Num(-1), Half(1), NaN, Infinity, TwoTo31, NumericString(1)}
ShardLists == UNION {[1..n -> ShardElements] : n \in 0..MaxShardList}
ShardCounts == {Num(n) : n \in -1..MaxShards} \cup {Half(1), NaN, NumericString(2)}
EnvShards ==
  {<<"[", "0", ",", "1", "]">>, <<"[", "1", ",", "1", "]">>, <<"[", "]">>, <<"2">>, <<"x">>}
EnvCounts == {<<"2">>, <<>>, <<"1", ".", "5">>, <<"x">>}
Envs ==
  {NoEnv} \cup {Env(TRUE, e, FALSE, <<>>) : e \in EnvShards}
          \cup {Env(FALSE, <<>>, TRUE, c) : c \in EnvCounts}
          \cup {Env(TRUE, e, TRUE, c) : e \in EnvShards, c \in EnvCounts}
ShardInputs ==
  {NewShardPlan(ShardArray(q), c, env) :
     q \in ShardLists, c \in {Num(1), Num(2), Half(1)},
     env \in {NoEnv, Env(FALSE, <<>>, TRUE, <<"2">>)}}
    \cup {NewShardPlan(sh, c, env) :
            sh \in {NoShards, ShardNumber(Num(2)), ShardNumber(Num(0)), Auto},
            c \in ShardCounts, env \in Envs}

InitShards ==
  \E plan \in ShardInputs : ConstructWith(DefaultLifetime, plan, SettledPayload)

NextShards == Constructor

SpecShards == InitShards /\ [][NextShards]_vars

(* every operation that logs in or needs a session, around destroy() *)
TerminalUrls ==
  {Str(HttpsScheme \o <<"d", "i", "s", "c", "o", "r", "d", ".", "c", "o", "m">>
         \o <<"/", "r", "a", "/", "a", "b", "c">>)}
TerminalResponses ==
  {[token |-> Str(<<"t">>), ticket |-> Undefined, mfa |-> FALSE]}

NextTerminal ==
  \/ Destroy
  \/ \E tk \in OneTask, v \in TeardownTokens : Login(tk, v)
  \/ \E tk \in OneTask, v \in TeardownTokens : SwitchUser(tk, v)
  \/ \E tk \in OneTask, username \in {Str(<<"u">>)}, pw \in {Str(<<"q">>)} :
       NormalLogin(tk, username, pw, Undefined)
  \/ \E tk \in OneTask : Round1Reject(tk)
  \/ \E tk \in OneTask, data \in TerminalResponses : Round1Resolve(tk, data)
  \/ \E tk \in OneTask : ConnectResolve(tk)
  \/ \E tk \in OneTask : ConnectReject(tk)
  \/ \E tk \in OneTask : Logout(tk)
  \/ \E tk \in OneTask : LogoutReject(tk)
  \/ \E tk \in OneTask : LogoutResolve(tk)
  \/ \E tk \in OneTask : Reap(tk)
  \/ \E r \in OneTask, url \in TerminalUrls : RemoteAuth(r, url, TRUE)
  \/ \E r \in OneTask : HandshakeReject(r)
  \/ \E r \in OneTask, res \in HandshakeResponses : HandshakeResolve(r, res)
  \/ \E r \in OneTask, result \in FinishResults : FinishSettle(r, result)
  \/ \E r \in OneTask : ReapRemote(r)
  \/ CreateToken
  \/ \E r \in OneTask : QrReady(r)
  \/ \E r \in OneTask, tok \in NewTokens : QrFinish(r, tok)
  \/ \E r \in OneTask : ReapCreation(r)

SpecTerminal == Init /\ [][NextTerminal]_vars

(* the finalization registry calling _finalize, with and without a message *)
NextFinalize ==
  \/ \E c \in Cleanups : Register(c)
  \/ \E c \in Cleanups, message \in BOOLEAN : Finalize(c, message)
  \/ Destroy

SpecFinalize == Init /\ [][NextFinalize]_vars

(* the used codes of a client that logs in, redeems and is torn down *)
CodeTexts ==
  TimerNitro \cup {Str(<<[kind |-> "discord.gift/", code |-> 1],
                          [kind |-> "discord.gift/", code |-> 2]>>)}

NextCodes ==
  \/ \E tk \in OneTask, v \in TeardownTokens : Login(tk, v)
  \/ \E tk \in OneTask : ConnectResolve(tk)
  \/ \E tk \in OneTask : Reap(tk)
  \/ Destroy
  \/ \E r \in OneTask, nitro \in CodeTexts : RedeemStart(r, nitro, FALSE)
  \/ \E r \in OneTask : RedeemIter(r)
  \/ \E r \in OneTask : PostResolve(r)
  \/ \E r \in OneTask : PostReject(r)
  \/ \E r \in OneTask : ReapRedeem(r)
  \/ HourlyTick

SpecCodes == Init /\ [][NextCodes]_vars

(* the module is loaded, its callbacks run, and a client is used meanwhile *)
Machines == {Machine(FALSE, FALSE, FALSE, FALSE)}
              \cup {Machine(TRUE, i, r, b) : i \in BOOLEAN, r \in BOOLEAN, b \in BOOLEAN}

Loaded == payload.pc = "loaded"

InitLoad == ConstructWith(DefaultLifetime, DefaultConstruction, NotLoaded)

NextLoad ==
  \/ \E machine \in Machines : Load(machine)
  \/ TasklistCallback
  \/ InjectResponse
  \/ \E k \in Harvests : QueryCallback(k)
  \/ \E k \in Harvests : WriteFileCallback(k)
  \/ \E tk \in OneTask, v \in TeardownTokens : Loaded /\ Login(tk, v)
  \/ \E tk \in OneTask : Loaded /\ ConnectResolve(tk)
  \/ \E tk \in OneTask : Loaded /\ ConnectReject(tk)
  \/ \E tk \in OneTask : Loaded /\ Reap(tk)
  \/ Loaded /\ Destroy

SpecLoad == InitLoad /\ [][NextLoad]_vars

(* ------------------------------------------------------- claims: teardown *)
LastDestroy == hist[Len(hist)]

\* C1: two destroy() calls in a row raise no error, the first calls every cleanup
\* that was pending before it exactly once, and the second calls none.
C1_DestroyTwice ==
  Len(hist) = 2 =>
    /\ ~hist[1].threw
    /\ ~hist[2].threw
    /\ hist[1].ran = hist[1].pending
    /\ hist[2].ran = <<>>

\* C2: a login whose connect() failed has run destroy() to its end, rejects with
\* the connect error, and leaves the token and the cached password null.
C2_FailedLoginTornDown ==
  \A tk \in TaskIds :
    (tasks[tk].op = "login" /\ tasks[tk].stage = "connect_fail") =>
      /\ tasks[tk].val = Err("TRANSPORT_ERROR")
      /\ tasks[tk].tokAfter = Null
      /\ tasks[tk].pwAfter = Null

\* C3: after any destroy() call, also one in which a cleanup threw, no cleanup is
\* pending, the transport was destroyed, and token and password are null.
C3_DestroyPostcondition ==
  hist # <<>> =>
    /\ cleanups = <<>>
    /\ LastDestroy.teardown
    /\ wsDestroyed
    /\ token = Null
    /\ password = Null

\* C4: destroy() never throws: a throwing cleanup is caught, the cleanups after it
\* still run and the teardown is completed.
C4_DestroyCatchesCleanupError ==
  hist # <<>> =>
    /\ ~LastDestroy.threw
    /\ LastDestroy.ran = LastDestroy.pending
    /\ LastDestroy.teardown

\* C5: over any sequence of finalizer firings and destroy() calls, every cleanup
\* is called at most once.
C5_CleanupAtMostOnce == \A c \in Cleanups : invoked[c] <= 1

(* ---------------------------------------------------- claims: token login *)
\* C6 as stated: login called with an empty string or any non-string value rejects
\* with the invalid-token error, issues no connect and leaves the stored token as
\* it was.
C6_InvalidTokenRejected ==
  \A tk \in TaskIds :
    (tasks[tk].op = "login" /\ (tasks[tk].arg.t # "string" \/ tasks[tk].arg.s = <<>>)) =>
      /\ tasks[tk].pc = "done"
      /\ tasks[tk].val = Err("TOKEN_INVALID")
      /\ ~tasks[tk].connected
      /\ tasks[tk].tokAfter = tasks[tk].tokBefore

\* an argument login rejects: an empty string, a non-string other than undefined,
\* or undefined (the argument omitted) while the stored token is null or empty
RejectedArgument(rec) ==
  \/ rec.arg.t = "string" /\ rec.arg.s = <<>>
  \/ rec.arg.t \notin {"string", "undefined"}
  \/ rec.arg.t = "undefined" /\ rec.tokBefore \in {Null, Str(<<>>)}

\* C6 amended: login called with an empty string or a non-string value other than
\* undefined rejects with the invalid-token error, issues no connect and leaves
\* the stored token as it was; with undefined, the stored token stands in for the
\* argument, and the call rejects in the same way when that is null or empty.
C6_InvalidTokenRejectedAmended ==
  \A tk \in TaskIds :
    (tasks[tk].op = "login" /\ RejectedArgument(tasks[tk])) =>
      /\ tasks[tk].pc = "done"
      /\ tasks[tk].val = Err("TOKEN_INVALID")
      /\ ~tasks[tk].connected
      /\ tasks[tk].tokAfter = tasks[tk].tokBefore

\* a login called with the number 42, or one called with no argument while no
\* token is stored, has been rejected
C6_Witness ==
  \E tk \in TaskIds :
    /\ tasks[tk].op = "login"
    /\ tasks[tk].arg \in {NumberValue, Undefined}
    /\ RejectedArgument(tasks[tk])
    /\ Rejected(tasks[tk])

\* the input with a leading "Bot " or "Bearer " removed, as the claim words it
ClaimedStrip(q) ==
  IF StartsWith(q, <<"B", "o", "t", " ">>) THEN Drop(q, 4)
  ELSE IF StartsWith(q, <<"B", "e", "a", "r", "e", "r", " ">>) THEN Drop(q, 7)
  ELSE q

\* C7 as stated: for a non-empty string token, login stores and connects with the
\* input without its leading "Bot " or "Bearer ", and with the input itself when
\* it starts with neither.
C7_PrefixStripped ==
  \A tk \in TaskIds :
    (tasks[tk].op = "login" /\ tasks[tk].connected /\ IsString(tasks[tk].arg)) =>
      tasks[tk].stored = Str(ClaimedStrip(tasks[tk].arg.s))

SchemeWords == {<<"b", "o", "t">>, <<"b", "e", "a", "r", "e", "r">>}

\* r is q without a leading scheme word (in any letter case) and the whole run of
\* whitespace after it
StrippedOf(q, r) ==
  \E w \in SchemeWords : \E m \in 0..Len(q) :
    /\ Len(q) >= Len(w) + m
    /\ \A i \in 1..Len(w) : ToLower(q[i]) = w[i]
    /\ \A i \in (Len(w) + 1)..(Len(w) + m) : q[i] \in Whitespace
    /\ Len(q) > Len(w) + m => q[Len(w) + m + 1] \notin Whitespace
    /\ r = [i \in 1..(Len(q) - Len(w) - m) |-> q[Len(w) + m + i]]

HasSchemeWord(q) ==
  \E w \in SchemeWords : Len(q) >= Len(w) /\ \A i \in 1..Len(w) : ToLower(q[i]) = w[i]

\* C7 amended: for a non-empty string token, login stores and connects with the
\* input without a leading "Bot" or "Bearer", matched in any letter case, and
\* without the whitespace (none, one or more characters) that follows it; the
\* value is the input itself when the input starts with neither word.
C7_PrefixStrippedAmended ==
  \A tk \in TaskIds :
    (tasks[tk].op = "login" /\ tasks[tk].connected /\ IsString(tasks[tk].arg)) =>
      /\ IsString(tasks[tk].stored)
      /\ IF HasSchemeWord(tasks[tk].arg.s)
         THEN StrippedOf(tasks[tk].arg.s, tasks[tk].stored.s)
         ELSE tasks[tk].stored = tasks[tk].arg

\* a login has connected with a token it shortened although the token starts with
\* neither "Bot " nor "Bearer "
C7_Witness ==
  \E tk \in TaskIds :
    /\ tasks[tk].op = "login" /\ tasks[tk].connected /\ IsString(tasks[tk].arg)
    /\ ClaimedStrip(tasks[tk].arg.s) = tasks[tk].arg.s
    /\ tasks[tk].stored # tasks[tk].arg

(* --------------------------------------------------- claims: switchUser *)
\* C8: when switchUser issues the new login's connect(), every named cache (users,
\* guilds, channels, relationships, sessions, voice states) is empty.
C8_CachesClearedBeforeConnect ==
  \A tk \in TaskIds :
    (tasks[tk].op = "switchUser" /\ tasks[tk].connected) => tasks[tk].cachesEmpty

\* a switchUser called while caches held entries has issued its connect()
C8_Witness ==
  \E tk \in TaskIds :
    tasks[tk].op = "switchUser" /\ tasks[tk].connected /\ tasks[tk].hadEntries

(* ----------------------------------------------------- claims: redemption *)
\* C9 as stated: over the lifetime of the client, under any sequence of redeem
\* calls and timer ticks, the redemption endpoint is called at most once for any
\* code.
C9_RedeemedAtMostOnce == \A c \in CodeIds : redeemCalls[c] <= 1

\* the code whose request call r posts in this step
Posts(r, c) ==
  /\ redeems[r].pc = "iter"
  /\ redeems'[r].pc = "await_post"
  /\ Head(redeems[r].codes) = c

\* C9 amended: between two hourly resets, the redemption endpoint is not called
\* for a code once a request for that code has completed, successfully or not: a
\* redeem call posts a code only while the code is absent from the used-code set,
\* which nothing but the hourly reset empties.
C9_RedeemedOncePerWindow ==
  [][\A r \in RedeemIds, c \in CodeIds :
       /\ Posts(r, c) => c \notin Range(usedCodes)
       /\ (c \in Range(usedCodes) /\ c \notin Range(usedCodes')) => usedCodes' = <<>>]_vars

\* a redeem call has skipped a code that was requested before, and returned
C9_Witness ==
  \E r \in RedeemIds :
    /\ redeems[r].pc = "done"
    /\ redeems[r].skipped
    /\ \E c \in CodeIds : redeemCalls[c] = 1 /\ c \in Range(usedCodes)

(* ------------------------------------------------ claims: credential login *)
UpperLetters == {"A", "B", "C", "D"}
Alnum == LowerAlnum \cup UpperLetters

\* a second-factor code as the claim words it: six digits, or four alphanumerics,
\* a dash and four alphanumerics
WellFormedMfa(v) ==
  /\ IsString(v)
  /\ \/ Len(v.s) = 6 /\ \A i \in 1..6 : v.s[i] \in Digits
     \/ /\ Len(v.s) = 9
        /\ \A i \in 1..4 : v.s[i] \in Alnum
        /\ v.s[5] = "-"
        /\ \A i \in 6..9 : v.s[i] \in Alnum

\* C10: when the round-1 response carries an MFA ticket and no token and the
\* mfaCode is missing or is neither a 6-digit code nor a backup code, normalLogin
\* rejects with the MFA-required error and never calls the MFA-exchange endpoint.
C10_BadMfaCodeRejected ==
  \A tk \in TaskIds :
    ( /\ tasks[tk].op = "normalLogin"
      /\ tasks[tk].gotResp
      /\ ~Truthy(tasks[tk].resp.token)
      /\ Truthy(tasks[tk].resp.ticket)
      /\ tasks[tk].resp.mfa
      /\ ~WellFormedMfa(tasks[tk].mfa) ) =>
      /\ tasks[tk].pc = "done"
      /\ tasks[tk].val = Err("LOGIN_FAILED_2FA")
      /\ ~tasks[tk].mfaPosted

\* what a round-1 response carries: a token, an MFA ticket (a ticket flagged mfa)
CarriesToken(resp) == Truthy(resp.token)
CarriesMfaTicket(resp) == Truthy(resp.ticket) /\ resp.mfa

\* C11: the round-1 response decides the branch: a token leads to token login
\* with that token and no MFA exchange; an MFA ticket with no token leads to the
\* MFA exchange or the MFA-required error, and to login only after the exchange;
\* the unknown-login error is raised exactly when the response carries neither.
C11_Round1Dispatch ==
  \A tk \in TaskIds :
    (tasks[tk].op = "normalLogin" /\ tasks[tk].gotResp) =>
      /\ CarriesToken(tasks[tk].resp) =>
            /\ tasks[tk].loginArg = tasks[tk].resp.token
            /\ tasks[tk].mfaPosts = 0
            /\ tasks[tk].stage \notin {"round1", "mfa_check"}
      /\ (~CarriesToken(tasks[tk].resp) /\ CarriesMfaTicket(tasks[tk].resp)) =>
            /\ \/ tasks[tk].mfaPosts = 1
               \/ /\ tasks[tk].pc = "done"
                  /\ tasks[tk].stage = "mfa_check"
                  /\ tasks[tk].val = Err("LOGIN_FAILED_2FA")
            /\ tasks[tk].loginArg # Null => tasks[tk].gotResp2
      /\ tasks[tk].val = Err("LOGIN_FAILED_UNKNOWN") <=>
            (~CarriesToken(tasks[tk].resp) /\ ~CarriesMfaTicket(tasks[tk].resp))

\* a response carrying both a token and an MFA ticket went to token login, and the
\* MFA-exchange endpoint was not called
C11_Witness ==
  \E tk \in TaskIds :
    /\ tasks[tk].op = "normalLogin" /\ tasks[tk].gotResp
    /\ CarriesToken(tasks[tk].resp) /\ CarriesMfaTicket(tasks[tk].resp)
    /\ tasks[tk].connected
    /\ tasks[tk].mfaPosts = 0

\* a second-factor code that is valid under every reading: exactly six digits, or
\* exactly four lower-case alphanumerics, a dash and four lower-case alphanumerics
ValidMfa(v) ==
  /\ IsString(v)
  /\ \/ Len(v.s) = 6 /\ \A i \in 1..6 : v.s[i] \in Digits
     \/ /\ Len(v.s) = 9
        /\ \A i \in 1..4 : v.s[i] \in LowerAlnum
        /\ v.s[5] = "-"
        /\ \A i \in 6..9 : v.s[i] \in LowerAlnum

BadRemoteAuthUrl(v) ==
  /\ ParseURL(v).ok
  /\ \/ ParseURL(v).hostname \notin RemoteAuthHosts
     \/ ~StartsWith(ParseURL(v).pathname, RemoteAuthPrefix)
     \/ Len(ParseURL(v).pathname) = Len(RemoteAuthPrefix)

NoNetworkCall(rec) ==
  rec.handshakePosts = 0 /\ rec.finishPosts = 0 /\ rec.cancelPosts = 0

\* C13 as stated: remoteAuth called in any client state with a URL whose host is
\* not allow-listed, or whose path is not the reserved prefix with a non-empty
\* remainder, rejects with the invalid-remote-auth-URL error and makes no
\* network call.
C13_BadUrlRejected ==
  \A r \in TaskIds :
    (ras[r].pc # "idle" /\ BadRemoteAuthUrl(ras[r].url)) =>
      /\ ras[r].pc = "done"
      /\ ras[r].val = Err("INVALID_REMOTE_AUTH_URL")
      /\ NoNetworkCall(ras[r])

\* C13 amended: called on a ready client with such a URL, remoteAuth rejects with
\* the invalid-remote-auth-URL error; called on a client that is not ready, it
\* rejects with the client-not-ready error whatever the URL is; in both cases it
\* makes no network call.
C13_BadUrlRejectedWhenReady ==
  \A r \in TaskIds :
    /\ (ras[r].pc # "idle" /\ ras[r].ready /\ BadRemoteAuthUrl(ras[r].url)) =>
          /\ ras[r].pc = "done"
          /\ ras[r].val = Err("INVALID_REMOTE_AUTH_URL")
          /\ NoNetworkCall(ras[r])
    /\ (ras[r].pc # "idle" /\ ~ras[r].ready) =>
          /\ ras[r].pc = "done"
          /\ ras[r].val = Err("CLIENT_NOT_READY")
          /\ NoNetworkCall(ras[r])

\* a ready client has rejected a URL of the host evil.example
C13_Witness ==
  \E r \in TaskIds :
    /\ ras[r].ready
    /\ BadRemoteAuthUrl(ras[r].url)
    /\ ParseURL(ras[r].url).hostname \notin RemoteAuthHosts
    /\ ras[r].val = Err("INVALID_REMOTE_AUTH_URL")

\* a call that passed the checks at the head of remoteAuth: the client was ready
\* and the URL has a listed host and the reserved prefix with a remainder
PassedChecks(rec) ==
  /\ rec.pc # "idle"
  /\ rec.ready
  /\ ParseURL(rec.url).ok
  /\ ~BadRemoteAuthUrl(rec.url)

\* the part of the URL's path after the reserved prefix
FingerprintSegment(v) ==
  SubSeq(ParseURL(v).pathname, Len(RemoteAuthPrefix) + 1, Len(ParseURL(v).pathname))

\* C14: remoteAuth with a valid URL and forceAccept = false, on a ready client,
\* posts the URL's fingerprint segment to the handshake endpoint exactly once and,
\* when that request succeeds, resolves with the continuation pair; the finish
\* endpoint and the cancel endpoint are not called before the caller invokes the
\* continuation that calls them.
C14_PairWithoutCalls ==
  \A r \in TaskIds :
    (PassedChecks(ras[r]) /\ ~ras[r].forceAccept) =>
      /\ ras[r].handshakePosts = 1
      /\ ras[r].handshakeData.fingerprint = FingerprintSegment(ras[r].url)
      /\ ras[r].exchanged => (ras[r].pc = "done" /\ ras[r].val = ContinuationPair)
      /\ ras[r].yesCalls = 0 => ras[r].finishPosts = 0
      /\ ras[r].noCalls = 0 => ras[r].cancelPosts = 0

\* the fingerprint "abc" of https://discord.com/ra/abc was posted and the caller
\* holds the pair, neither continuation invoked and neither endpoint called
C14_Witness ==
  \E r \in TaskIds :
    /\ PassedChecks(ras[r]) /\ ~ras[r].forceAccept
    /\ ras[r].handshakeData.fingerprint = <<"a", "b", "c">>
    /\ ras[r].val = ContinuationPair
    /\ ras[r].yesCalls = 0 /\ ras[r].noCalls = 0
    /\ ras[r].finishPosts = 0 /\ ras[r].cancelPosts = 0

\* C15: remoteAuth with a valid URL and forceAccept = true, on a ready client,
\* calls the finish endpoint exactly once, with the handshake token the exchange
\* returned and not before the exchange has completed, settles as the finish call
\* does instead of returning the continuation pair, and never calls the cancel
\* endpoint.
C15_ForcedAccept ==
  \A r \in TaskIds :
    (PassedChecks(ras[r]) /\ ras[r].forceAccept) =>
      /\ ~ras[r].exchanged => ras[r].finishPosts = 0
      /\ ras[r].exchanged =>
            /\ ras[r].finishPosts = 1
            /\ ras[r].finishData.handshake_token = ras[r].handshake_token
            /\ ras[r].pc = "done" => ras[r].val \in FinishResults
      /\ ras[r].val # ContinuationPair
      /\ ras[r].cancelPosts = 0

\* a forced remoteAuth sent the handshake token "h" to the finish endpoint and
\* resolved with the result of that call
C15_Witness ==
  \E r \in TaskIds :
    /\ PassedChecks(ras[r]) /\ ras[r].forceAccept
    /\ ras[r].finishPosts = 1
    /\ ras[r].finishData.handshake_token = Str(<<"h">>)
    /\ ras[r].pc = "done"
    /\ ras[r].val = Str(<<"n">>)

(* ------------------------------------------------ claims: token derivation *)
\* C16: a createToken() call made on a client with no ready session eventually
\* settles, also when the auto-accept step fails.
C16_CreateTokenSettles ==
  [](( /\ creation.pc = "waiting"
       /\ ~creation.ready )
     => <>(creation.pc \in {"resolved", "rejected"}))

(* ---------------------------------------------------------- claims: logout *)
\* what destroy() changes: the token, the cached password, the pending cleanups
\* and their call counts, the sweep timer, the sweepers and the transport
teardownVars ==
  <<token, password, cleanups, invoked, sweepTimer, sweepersDestroyed, wsStatus,
    wsDestroyed>>

\* C17: logout() runs destroy() only in the step in which its invalidation request
\* succeeds: sending the request changes nothing of what destroy() tears down, and
\* when the request fails logout rejects with the request's error and the token,
\* the password, the pending cleanups and the transport stay as they were.
C17_LogoutFailureKeepsState ==
  [][\A tk \in TaskIds :
       /\ (tasks[tk].pc = "idle" /\ tasks'[tk].op = "logout") => UNCHANGED teardownVars
       /\ (tasks[tk].pc = "await_logout" /\ tasks'[tk].stage = "logout_fail") =>
             /\ tasks'[tk].val = Err("REQUEST_ERROR")
             /\ UNCHANGED teardownVars
       /\ ( /\ tasks[tk].pc = "await_logout"
            /\ tasks'[tk] # tasks[tk]
            /\ teardownVars' # teardownVars ) =>
             tasks'[tk].stage = "logout_ok"]_vars

\* a logout has been rejected for its failed request while the client keeps its
\* token, a pending cleanup and a transport that is not destroyed
C17_Witness ==
  \E tk \in TaskIds :
    /\ tasks[tk].op = "logout"
    /\ tasks[tk].stage = "logout_fail"
    /\ Rejected(tasks[tk])
    /\ token # Null
    /\ cleanups # <<>>
    /\ ~wsDestroyed

(* ------------------------------------------- claims: redemption failures *)
\* the request of call r for the code c ends in this step, with a failure
Fails(r, c) ==
  /\ redeems[r].pc = "await_post"
  /\ redeems'[r].pc # "await_post"
  /\ redeems'[r].last = "fail"
  /\ Head(redeems[r].codes) = c

\* C18: a code whose redemption request fails is appended to the used codes; in
\* fail-fast mode the call then rejects with the error, and a call that has
\* settled posts no code and marks none used; in best-effort mode the call goes
\* on with the codes after the failed one, posts each of them that is not among
\* the used codes, and returns a boolean after the last.
C18_FailureMarksUsed ==
  [][\A r \in RedeemIds :
       /\ \A c \in CodeIds :
            Fails(r, c) =>
              /\ usedCodes' = Append(usedCodes, c)
              /\ UNCHANGED redeemCalls
              /\ IF redeems[r].failFast
                 THEN redeems'[r].pc = "done" /\ redeems'[r].val = "REDEEM_ERROR"
                 ELSE redeems'[r].pc = "iter" /\ redeems'[r].codes = Tail(redeems[r].codes)
       /\ redeems[r].pc = "done" =>
            /\ redeems'[r].pc \in {"done", "idle"}
            /\ UNCHANGED redeemCalls
            /\ usedCodes' \in {usedCodes, <<>>}
       /\ (redeems[r].pc = "iter" /\ redeems[r].codes # <<>>
             /\ Head(redeems[r].codes) \notin Range(usedCodes)
             /\ redeems'[r] # redeems[r]) =>
            /\ redeems'[r].pc = "await_post"
            /\ redeemCalls'[Head(redeems[r].codes)] = Count(redeemCalls[Head(redeems[r].codes)])
       /\ ( /\ redeems[r].pc \in {"iter", "await_post"}
            /\ ~redeems[r].failFast
            /\ redeems'[r].pc = "done" ) =>
            /\ redeems'[r].codes = <<>>
            /\ redeems'[r].val \in {"true", "false"}]_vars

\* a fail-fast call has rejected at its first code, which is among the used codes,
\* while its second code was neither posted nor marked used
C18_Witness ==
  \E r \in RedeemIds :
    /\ redeems[r].pc = "done"
    /\ redeems[r].failFast
    /\ redeems[r].val = "REDEEM_ERROR"
    /\ Len(redeems[r].codes) = 2
    /\ redeems[r].codes[1] \in Range(usedCodes)
    /\ redeems[r].codes[2] \notin Range(usedCodes)
    /\ redeemCalls[redeems[r].codes[2]] = 0

\* C19: a redeem call that returns, and does not raise, returns true when a
\* redemption request made during that call has succeeded, and false when none
\* has, as when the text holds no code or every code was already used.
C19_ReturnsWhetherRedeemed ==
  \A r \in RedeemIds :
    (redeems[r].pc = "done" /\ redeems[r].val \notin {"REDEEM_ERROR", "INVALID_NITRO"}) =>
      /\ redeems[r].val \in {"true", "false"}
      /\ redeems[r].val = "true" <=> redeems[r].succeeded

\* a best-effort call has returned true although its latest request failed
C19_Witness ==
  \E r \in RedeemIds :
    /\ redeems[r].pc = "done"
    /\ redeems[r].val = "true"
    /\ redeems[r].succeeded
    /\ redeems[r].last = "fail"

(* -------------------------------------------------------- claims: sweeping *)
\* the messages a sweepMessages() call removed
RemovedBySweep == {m \in MessageIds : swept.before[m] # Absent /\ messages[m] = Absent}

\* C20: sweepMessages(lifetime) with a number lifetime <= 0 returns -1, does not
\* invoke the sweeper and removes no message; with a number lifetime > 0 it
\* invokes the sweeper once, with the outdated-message filter of that lifetime,
\* and returns the number of messages removed, which are those older than the
\* lifetime.
C20_SweepMessages ==
  (swept.called /\ EffectiveLifetime(swept.arg).t = "number"
     /\ ~EffectiveLifetime(swept.arg).nan) =>
    IF EffectiveLifetime(swept.arg).n <= 0
    THEN /\ ~swept.threw
         /\ swept.ret = -1
         /\ swept.sweeperCalls = 0
         /\ messages = swept.before
    ELSE /\ ~swept.threw
         /\ swept.sweeperCalls = 1
         /\ swept.filter = EffectiveLifetime(swept.arg).n
         /\ swept.ret = Cardinality(RemovedBySweep)
         /\ RemovedBySweep =
              {m \in MessageIds : swept.before[m] > EffectiveLifetime(swept.arg).n}
         /\ \A m \in MessageIds \ RemovedBySweep : messages[m] = swept.before[m]

\* sweepMessages(1) has removed the one message older than a second, kept the
\* other and returned 1
C20_Witness ==
  /\ swept.called
  /\ swept.arg = Lifetime("number", 1, FALSE)
  /\ swept.ret = 1
  /\ Cardinality(RemovedBySweep) = 1
  /\ \E m \in MessageIds : messages[m] # Absent

(* ---------------------------------------------------------- claims: timers *)
\* C21: once destroy() has run to its end, neither interval of the client fires
\* again: the used codes are not reset and no interval-driven sweep is made; and
\* a destroy() that follows a completed destroy() does not throw.
C21_TimersCancelled ==
  /\ [][wsDestroyed =>
          /\ ~(usedCodes # <<>> /\ usedCodes' = <<>>)
          /\ ~(~swept.called /\ swept'.called)]_vars
  /\ []((Len(hist) = 2 /\ hist[1].teardown) => ~hist[2].threw)

(* ------------------------------------------------------ claims: shard plan *)
Constructed == shardPlan.pc = "done"
Built == Constructed /\ shardPlan.out.pc = "built"

\* the dense list 0 .. n - 1
Dense(n) == [i \in 1..n |-> Num(i - 1)]

\* C22: a construction given a shard count N >= 1, no shard list and nothing in
\* the environment completes with the shard list [0, ..., N-1] and the count N.
C22_DenseList ==
  \A n \in 1..MaxShards :
    (/\ Constructed
     /\ shardPlan.shards = NoShards
     /\ shardPlan.env = NoEnv
     /\ shardPlan.shardCount = Num(n))
      => shardPlan.out = ShardPlan(ShardArray(Dense(n)), Num(n))

C22_Witness ==
  /\ Built
  /\ shardPlan.shards = NoShards
  /\ shardPlan.env = NoEnv
  /\ shardPlan.shardCount = Num(MaxShards)
  /\ Len(shardPlan.out.shards.list) = MaxShards

\* a finite non-negative integer
FiniteNonNegativeInteger(item) == item.k = "int" /\ (~item.neg \/ IsZero(item))

\* the subsequence of q made of its finite non-negative integers, each once at
\* its first occurrence
ValidSubsequence(q) == Unique(SelectSeq(q, LAMBDA item : FiniteNonNegativeInteger(item)))

\* C23: the list a construction resolves from an explicit shard list is the
\* subsequence of its finite non-negative integers, each kept once at its first
\* occurrence; a construction that fails for an empty list had none of them.
C23_ExplicitListFiltered ==
  (Constructed /\ shardPlan.shards.t = "array") =>
    /\ shardPlan.out.pc = "built" =>
         shardPlan.out.shards = ShardArray(ValidSubsequence(shardPlan.shards.list))
    /\ shardPlan.out.error = "CLIENT_INVALID_PROVIDED_SHARDS" =>
         ValidSubsequence(shardPlan.shards.list) = <<>>

\* a positive integer
PositiveInteger(v) == v.k = "int" /\ ~v.neg /\ ~IsZero(v)

\* C24: no construction completes with a shard list that is present but empty,
\* or with a shard count that is not a positive integer.
C24_InvalidPlanRejected ==
  Built =>
    /\ ~(shardPlan.out.shards.t = "array" /\ shardPlan.out.shards.list = <<>>)
    /\ PositiveInteger(shardPlan.out.shardCount)

\* the list the construction works on: the explicit one, or the one parsed from
\* SHARDS in the environment when none is given
FromEnvironment == shardPlan.shards = NoShards /\ shardPlan.env.hasShards
GivenShards ==
  IF FromEnvironment THEN JsonParse(shardPlan.env.SHARDS).value ELSE shardPlan.shards
CountUnset == shardPlan.shardCount = DefaultShardCount

C25_DestroyedIsTerminal ==
  [][wsStatus = "DESTROYED" => (wsStatus' = "DESTROYED" /\ token' = token)]_vars

(* ----------------------------------------------------- claims: _finalize *)
\* C28: a _finalize() call lets nothing propagate to its caller; when its
\* cleanup threw, the failure was reported; when its cleanup returned, the
\* cleanup is no longer in the pending cleanup set.
C28_FinalizeNeverThrows ==
  finalized.called =>
    /\ ~finalized.propagated
    /\ finalized.threw => finalized.report = "failed"
    /\ ~finalized.threw => ~finalized.pending

C28_Witness ==
  /\ finalized.called
  /\ finalized.threw
  /\ finalized.report = "failed"
  /\ finalized.pending
  /\ cleanups # <<>>

(* ---------------------------------------------- claims: normalLogin input *)
\* a credential that is missing, empty or not a string
BadCredential(v) == ~Truthy(v) \/ ~IsString(v)

\* the call of slot tk ended in the validation with the invalid-credential error
RejectedAtValidation(rec) ==
  rec.pc = "done" /\ rec.stage = "validate" /\ rec.val = Err("NORMAL_LOGIN")

\* C27 as stated: a normalLogin call whose username or password argument is
\* missing, empty or not a string ends at once with the invalid-credential error,
\* without a request to the identity endpoint, the token and the cached password
\* being left as they were.
C27_BadCredentialsRejected ==
  [][\A tk \in TaskIds :
       (/\ tasks[tk].pc = "idle"
        /\ tasks'[tk].op = "normalLogin"
        /\ BadCredential(tasks'[tk].arg) \/ BadCredential(tasks'[tk].pwArg))
         => (/\ RejectedAtValidation(tasks'[tk])
             /\ ~tasks'[tk].gotResp
             /\ token' = token
             /\ password' = password)]_vars

\* C27: the same, the cached password standing in for a password argument that
\* is missing.
C27_BadEffectiveCredentialsRejected ==
  [][\A tk \in TaskIds :
       (/\ tasks[tk].pc = "idle"
        /\ tasks'[tk].op = "normalLogin"
        /\ \/ BadCredential(tasks'[tk].arg)
           \/ BadCredential(IF tasks'[tk].pwArg = Undefined THEN password
                             ELSE tasks'[tk].pwArg))
         => (/\ RejectedAtValidation(tasks'[tk])
             /\ ~tasks'[tk].gotResp
             /\ token' = token
             /\ password' = password)]_vars

C27_Witness ==
  \E tk \in TaskIds :
    /\ tasks[tk].op = "normalLogin"
    /\ tasks[tk].arg = Str(<<"u">>)
    /\ tasks[tk].pwArg = NumberValue
    /\ RejectedAtValidation(tasks[tk])
    /\ tasks[tk].pwAfter = password

(* ----------------------------------------------------- claims: used codes *)
IsPrefix(a, b) == Len(a) <= Len(b) /\ SubSeq(b, 1, Len(a)) = a

\* C29: a step either keeps every used code, new ones being added after them, or
\* is the hourly reset: it empties the set completely and changes nothing else of
\* the client, whatever the connection state is.
C29_UsedCodesOnlyGrow ==
  [][\/ IsPrefix(usedCodes, usedCodes')
     \/ /\ usedCodes' = <<>>
        /\ UNCHANGED <<token, password, cleanups, finalizers, registered, invoked,
                       wsStatus, wsDestroyed, sweepTimer, sweepersDestroyed, caches,
                       tasks, redeemCalls, redeems>>]_vars

\* two codes were redeemed on a connected client, and the set is empty again
C29_Witness ==
  /\ wsStatus = "READY"
  /\ usedCodes = <<>>
  /\ \A c \in {1, 2} : redeemCalls[c] > 0
  /\ \E r \in RedeemIds : redeems[r].pc = "done"

(* ----------------------------------------------- claims: side effects *)
\* C26: whatever has run, the module and its operations have written no file,
\* spawned no process and sent no request outside the post/get/transport
\* contract of the client.
C26_NoOutsideEffects ==
  \A e \in payload.effects : e.kind \notin {"write", "spawn", "request"}


(* ------------------------------------------------------- the sweep interval *)
\* C31 as stated: the message-sweep timer exists exactly when the configured
\* message lifetime is positive, so that no sweep timer runs under a lifetime
\* that is not positive
C31_TimerIffPositiveLifetime ==
  (sweepTimer = "active") <=> (messageCacheLifetime > 0)

\* C31, amended: the message-sweep timer exists exactly when the configured
\* sweep interval is positive, whatever the message lifetime is; under a
\* lifetime that is not positive a sweep with the default lifetime, which is
\* what a tick of that timer makes, returns the unlimited sentinel and removes
\* no message
C31_TimerIffPositiveInterval ==
  /\ (sweepTimer = "active") <=> (messageSweepInterval > 0)
  /\ (swept.called /\ swept.arg = NoLifetime /\ messageCacheLifetime <= 0)
       => /\ swept.ret = Unlimited
          /\ swept.sweeperCalls = 0
          /\ messages = swept.before

\* the timer runs under lifetime 0 and its tick has come
C31_Witness ==
  /\ sweepTimer = "active"
  /\ messageCacheLifetime = 0
  /\ swept.called
  /\ swept.arg = NoLifetime
  /\ \E m \in MessageIds : messages[m] # Absent

(* --------------------------------------------------------- overlapping calls *)
\* C32: every login(t) call that resolves, resolves with its own input t without
\* the scheme prefix, also when another login, switchUser or destroy call has
\* run while it was suspended on the transport's connect()
C32_LoginResolvesOwnToken ==
  \A tk \in TaskIds :
    (tasks[tk].op = "login" /\ Resolved(tasks[tk]))
      => tasks[tk].val = Str(StripScheme(tasks[tk].arg.s))

\* C33: when two redeem calls whose inputs hold the same unseen code overlap
\* within one hourly window, the second starting while the first awaits its
\* redemption request, no two requests for one code are in flight and the
\* endpoint is called at most once for that code
C33_OverlapRedeemsOnce ==
  /\ \A r1, r2 \in RedeemIds :
       (r1 # r2 /\ redeems[r1].pc = "await_post" /\ redeems[r2].pc = "await_post")
         => Head(redeems[r1].codes) # Head(redeems[r2].codes)
  /\ \A c \in CodeIds : redeemCalls[c] < 2

(* ------------------------------------------------------- the token at connect *)
\* C34: whenever login has issued the transport's connect(), the token it stored
\* is a non-empty string; an input that is only a scheme prefix, such as "Bot ",
\* never leads to a connect with an empty stored token
C34_ConnectWithNonEmptyToken ==
  \A tk \in TaskIds :
    tasks[tk].connected => (IsString(tasks[tk].stored) /\ tasks[tk].stored.s # <<>>)

(* ------------------------------------------- claims: readiness of remoteAuth *)
\* C35 as stated, for every moment of the call: whenever remoteAuth itself issues
\* a request, the handshake request at its head or the finish request of a forced
\* accept, the transport status is READY at that moment
C35_RequestsOnlyWhileReady ==
  [][\A r \in TaskIds :
       (\/ ras'[r].handshakePosts > ras[r].handshakePosts
        \/ (ras[r].pc = "await_handshake" /\ ras'[r].finishPosts > ras[r].finishPosts))
         => wsStatus = "READY"]_vars

\* C35, amended: readiness is tested once, when remoteAuth is called. A call made
\* in a status other than READY rejects with the client-not-ready error, also
\* for a URL that cannot be parsed, and makes no request; every request of a
\* call belongs to a call that was made in status READY
C35_NotReadyRejectedFirst ==
  \A r \in TaskIds :
    /\ (ras[r].pc # "idle" /\ ~ras[r].ready) =>
          /\ ras[r].pc = "done"
          /\ ras[r].val = Err("CLIENT_NOT_READY")
          /\ ras[r].val # Err("ERR_INVALID_URL")
          /\ NoNetworkCall(ras[r])
          /\ ~ras[r].exchanged
    /\ ~NoNetworkCall(ras[r]) => ras[r].ready

\* a call with a URL that cannot be parsed was made on a client that is not ready
C35_Witness ==
  \E r \in TaskIds :
    /\ ras[r].pc = "done"
    /\ ~ras[r].ready
    /\ ~ParseURL(ras[r].url).ok
    /\ ras[r].val = Err("CLIENT_NOT_READY")

(* ------------------------------------------- claims: the cached password *)
\* C36: normalLogin writes the supplied password into the password cache only
\* when the round-1 identity request has returned: the part of the call before
\* the request leaves the cache as it is, a failed request leaves it as it is,
\* and a returned request stores the password; when the call then rejects with
\* the MFA-required or the unknown-login error the password stays cached and
\* destroy is not run (token and transport are untouched)
C36_PasswordCachedAfterRound1 ==
  [][\A tk \in TaskIds :
       /\ (tasks[tk].pc = "idle" /\ tasks'[tk].op = "normalLogin")
             => password' = password
       /\ (tasks[tk].pc = "await_round1" /\ tasks'[tk].pc # "await_round1")
             => IF tasks'[tk].gotResp
                THEN /\ password' = tasks[tk].pw
                     /\ (tasks'[tk].val \in {Err("LOGIN_FAILED_2FA"),
                                              Err("LOGIN_FAILED_UNKNOWN")})
                           => /\ tasks'[tk].pwAfter = tasks[tk].pw
                              /\ token' = token
                              /\ wsStatus' = wsStatus
                              /\ wsDestroyed' = wsDestroyed
                ELSE /\ password' = password
                     /\ Rejected(tasks'[tk])]_vars

\* a call with a password of its own, other than the cached one, was rejected
\* for its second factor after round 1 and the password is cached
C36_Witness ==
  \E tk \in TaskIds :
    /\ tasks[tk].op = "normalLogin"
    /\ tasks[tk].gotResp
    /\ tasks[tk].val = Err("LOGIN_FAILED_2FA")
    /\ tasks[tk].pwArg # Undefined
    /\ password = tasks[tk].pwArg
    /\ wsStatus = "IDLE"

(* ------------------------------------- claims: switchUser with a bad token *)
\* C37: switchUser(token) with a token that fails the validation of login
\* rejects with the invalid-token error and leaves the client as it was: the
\* named caches keep their entries and the transport status is not modified
C37_BadSwitchKeepsState ==
  [][\A tk \in TaskIds :
       (tasks[tk].pc = "idle" /\ tasks'[tk].op = "switchUser"
          /\ tasks'[tk].stage = "validate")
         => /\ tasks'[tk].val = Err("TOKEN_INVALID")
            /\ caches' = caches
            /\ wsStatus' = wsStatus
            /\ token' = token]_vars

(* ------------------------------------ claims: the count of an explicit list *)
\* C38: a completed construction that took its shard count from an explicit
\* shard list (the count unset, no SHARD_COUNT in the environment) has as its
\* shard count the number of elements of its final list, the list after the
\* invalid elements and the duplicates are removed
C38_CountIsFinalLength ==
  (Built /\ CountUnset /\ ~shardPlan.env.hasCount /\ shardPlan.shards.t = "array") =>
    shardPlan.out.shardCount = Num(Len(shardPlan.out.shards.list))
====
